---------------------------- MODULE Spec2Model ----------------------------
(***************************************************************************)
(* A model of mm.c, a 64-bit segregated-free-list allocator.               *)
(*                                                                         *)
(* The heap is a sequence of 8-byte words; addresses are byte addresses.   *)
(* Block headers, footers and free-list pointers live in those words, as   *)
(* in the C code.  Every helper of mm.c is an operator of the same name    *)
(* that takes the allocator state s (a record) and returns the new state.  *)
(* Where a C function has several statements in a row, the operator hands  *)
(* the state after one statement to an operator for the statements that    *)
(* follow (write_block -> write_block_footer, and so on).                  *)
(***************************************************************************)
EXTENDS Integers, Sequences, FiniteSets, TLC

(***************************************************************************)
(* Bounds of the model.                                                    *)
(***************************************************************************)
\* capacity of the heap provider, in 8-byte words
MaxHeapWords == 18
\* largest request the caller makes in the ordinary range is
\* 8 * (2 * MaxReqWords - 1) bytes
MaxReqWords == 3
\* number of calls and stores the caller makes after initialize
MaxSteps == 5
\* number of allocations the caller holds at a time
MaxLive == 2
\* calls after initialize of the longer histories, whose caller asks for
\* fewer things
MaxDeepSteps == 6
\* capacity of the heap provider for the caller that follows a plan, in
\* 8-byte words
MaxPlanHeapWords == 262
\* calls of malloc and free before the heap checker's heaps are looked at
MaxCheckCalls == 3
\* largest block size asked of get_class, in units of 16 bytes
MaxClassUnits == 1200

(***************************************************************************)
(* Program constants.                                                      *)
(***************************************************************************)
NULL == 0
wsize == 8
dsize == 2 * wsize
min_block_size == dsize
chunksize == 64
alloc_mask == 1
prev_alloc_mask == 2
prev_miniblock_mask == 4
max_search == 6
NUM_CLASSES == 15

\* first address of the region the heap provider hands out (16-aligned)
HeapBase == 32
\* what a word of the provider holds before the program writes it
FreshWord == 170

(***************************************************************************)
(* size_t arithmetic.  A size_t is four 16-bit limbs, least significant    *)
(* first, so that sums and products wrap at 2^64 as they do in C.          *)
(***************************************************************************)
Limb == 65536

U64(n) == <<n % Limb, (n \div Limb) % Limb, 0, 0>>

\* 2^64 - k, for 0 < k < 2^16
Neg64(k) == <<Limb - k, Limb - 1, Limb - 1, Limb - 1>>

Add64(a, b) ==
    LET s1 == a[1] + b[1]
        s2 == a[2] + b[2] + (s1 \div Limb)
        s3 == a[3] + b[3] + (s2 \div Limb)
        s4 == a[4] + b[4] + (s3 \div Limb)
    IN  <<s1 % Limb, s2 % Limb, s3 % Limb, s4 % Limb>>

\* a / n for a small divisor n
Div64(a, n) ==
    LET t4 == a[4]
        t3 == (t4 % n) * Limb + a[3]
        t2 == (t3 % n) * Limb + a[2]
        t1 == (t2 % n) * Limb + a[1]
    IN  <<t1 \div n, t2 \div n, t3 \div n, t4 \div n>>

\* a * n modulo 2^64 for a small factor n
Mul64(a, n) ==
    LET p1 == a[1] * n
        p2 == a[2] * n + (p1 \div Limb)
        p3 == a[3] * n + (p2 \div Limb)
        p4 == a[4] * n + (p3 \div Limb)
    IN  <<p1 % Limb, p2 % Limb, p3 % Limb, p4 % Limb>>

Lt64(a, b) ==
    \/ a[4] < b[4]
    \/ a[4] = b[4] /\ a[3] < b[3]
    \/ a[4] = b[4] /\ a[3] = b[3] /\ a[2] < b[2]
    \/ a[4] = b[4] /\ a[3] = b[3] /\ a[2] = b[2] /\ a[1] < b[1]

\* Every size of 2^30 bytes or more is beyond anything the modelled heap
\* holds: no stored word and no capacity of the provider reaches it.
TooBig == 1073741824

Small64(a) == a[4] = 0 /\ a[3] = 0 /\ a[2] < 16384

ToInt(a) == IF Small64(a) THEN a[1] + Limb * a[2] ELSE TooBig

\* a - b on size_t values held as integers: below zero is a huge size
USub(a, b) == IF a >= b THEN a - b ELSE TooBig

max(x, y) == IF x > y THEN x ELSE y

round_up(size, n) == Mul64(Div64(Add64(size, U64(n - 1)), n), n)

(***************************************************************************)
(* Header and footer words.                                                *)
(***************************************************************************)
OrBit(word, mask) == IF (word \div mask) % 2 = 1 THEN word ELSE word + mask

pack(size, alloc, prev_alloc, prev_miniblock) ==
    LET w1 == IF alloc THEN OrBit(size, alloc_mask) ELSE size
        w2 == IF prev_alloc THEN OrBit(w1, prev_alloc_mask) ELSE w1
    IN  IF prev_miniblock THEN OrBit(w2, prev_miniblock_mask) ELSE w2

extract_size(word) == word - (word % 16)
extract_alloc(word) == (word \div alloc_mask) % 2 = 1
extract_prev_alloc(word) == (word \div prev_alloc_mask) % 2 = 1
extract_prev_mini(word) == (word \div prev_miniblock_mask) % 2 = 1

(***************************************************************************)
(* The heap region.  s.mem[i] is the word at HeapBase + 8 * (i - 1).       *)
(* An access outside the region, or one that is not word aligned, is a     *)
(* wild access: it sets s.fault and the run ends there.                    *)
(***************************************************************************)
mem_heap_lo == HeapBase
mem_heap_hi(s) == HeapBase + wsize * Len(s.mem) - 1

Valid(s, a) ==
    /\ a >= mem_heap_lo
    /\ a + wsize - 1 <= mem_heap_hi(s)
    /\ (a - HeapBase) % wsize = 0

Idx(a) == (a - HeapBase) \div wsize + 1

Rd(s, a) == IF Valid(s, a) THEN s.mem[Idx(a)] ELSE 0

Touch(s, a) == IF Valid(s, a) THEN s ELSE [s EXCEPT !.fault = TRUE]

Wr(s, a, v) ==
    IF Valid(s, a) THEN [s EXCEPT !.mem[Idx(a)] = v]
    ELSE [s EXCEPT !.fault = TRUE]

\* dbg_requires / dbg_assert / dbg_ensures: s.dbg stays TRUE while every
\* assertion reached so far held.  It is read by no operation.
Dbg(s, cond) == IF ~s.dbg \/ cond THEN s ELSE [s EXCEPT !.dbg = FALSE]

get_size(s, block) == extract_size(Rd(s, block))
get_alloc(s, block) == extract_alloc(Rd(s, block))
get_prev_alloc(s, block) == extract_prev_alloc(Rd(s, block))
get_prev_mini(s, block) == extract_prev_mini(Rd(s, block))

payload_to_header(bp) == bp - wsize
header_to_payload(block) == block + wsize
header_to_footer(s, block) == block + wsize + get_size(s, block) - dsize
get_payload_size(s, block) == get_size(s, block) - wsize

\* the fields un.node.next and un.node.prev of a block
NextField(b) == b + wsize
PrevField(b) == b + 2 * wsize
get_next(s, b) == Rd(s, NextField(b))
get_prev(s, b) == Rd(s, PrevField(b))

write_epilogue(s, block) ==
    Wr(Dbg(s, block # NULL /\ block = mem_heap_hi(s) - 7), block,
       pack(0, TRUE, FALSE, FALSE))

\* the footer of write_block, after the header is written
write_block_footer(s, block, size, alloc, prev_alloc, prev_mini) ==
    IF ~alloc /\ size # 0
    THEN Wr(Dbg(s, get_size(s, block) # 0), header_to_footer(s, block),
            pack(size, alloc, prev_alloc, prev_mini))
    ELSE s

write_block(s, block, size, alloc, prev_alloc, prev_mini) ==
    write_block_footer(
        Wr(Dbg(s, /\ block # NULL
                  /\ block % dsize # 0
                  /\ block > mem_heap_lo
                  /\ block < mem_heap_hi(s)
                  /\ size % dsize = 0),
           block, pack(size, alloc, prev_alloc, prev_mini)),
        block, size, alloc, prev_alloc, prev_mini)

find_next(s, block) == block + get_size(s, block)

find_prev_footer(block) == block - wsize

footer_to_header(s, footer) ==
    IF extract_size(Rd(s, footer)) = 0 THEN footer
    ELSE footer + wsize - extract_size(Rd(s, footer))

find_prev(s, block) ==
    IF get_prev_mini(s, block) THEN block - min_block_size
    ELSE footer_to_header(s, find_prev_footer(block))

(***************************************************************************)
(* The segregated free lists.  s.seg[k] is seg_list[k].                    *)
(***************************************************************************)
\* steps a list walk may take before it is known to go round in a circle
Fuel(s) == Len(s.mem) + 1

RECURSIVE is_in_from(_, _, _, _)
is_in_from(s, tmp, b, fuel) ==
    IF tmp = NULL \/ fuel = 0 \/ ~Valid(s, tmp) THEN FALSE
    ELSE IF tmp = b THEN TRUE
    ELSE is_in_from(s, get_next(s, tmp), b, fuel - 1)

is_in(s, k, b) == is_in_from(s, s.seg[k], b, Fuel(s))

\* dbg_ensures(is_in(head, b)) and dbg_ensures(!is_in(head, b))
ensure_in(s, k, b) == Dbg(s, is_in(s, k, b))
ensure_out(s, k, b) == Dbg(s, ~is_in(s, k, b))

\* insert_head after its dbg_requires
insert_head_link(s, k, b) ==
    IF get_size(s, b) = min_block_size
    THEN IF s.seg[k] = NULL
         THEN Wr([s EXCEPT !.seg[k] = b], NextField(b), NULL)
         ELSE [Wr(s, NextField(b), s.seg[k]) EXCEPT !.seg[k] = b]
    ELSE ensure_in(
           IF s.seg[k] = NULL
           THEN Wr(Wr([s EXCEPT !.seg[k] = b], NextField(b), NULL),
                   PrevField(b), NULL)
           ELSE [Wr(Wr(Wr(s, PrevField(s.seg[k]), b), NextField(b), s.seg[k]),
                    PrevField(b), NULL) EXCEPT !.seg[k] = b],
           k, b)

insert_head(s, k, b) ==
    insert_head_link(
        Touch(Dbg(s, b # NULL /\ ~get_alloc(s, b) /\ ~is_in(s, k, b)), b),
        k, b)

\* remove_head after its dbg_requires; b is the old head
remove_head_unlink(s, k, b) ==
    IF get_size(s, b) = min_block_size
    THEN ensure_out(Wr([s EXCEPT !.seg[k] = get_next(s, b)],
                       NextField(b), NULL), k, b)
    ELSE ensure_out(
           Wr(IF get_next(s, b) = NULL THEN [s EXCEPT !.seg[k] = NULL]
              ELSE Wr([s EXCEPT !.seg[k] = get_next(s, b)],
                      PrevField(get_next(s, b)), NULL),
              NextField(b), NULL),
           k, b)

remove_head(s, k) ==
    remove_head_unlink(
        Touch(Touch(Dbg(s, s.seg[k] # NULL), s.seg[k]), NextField(s.seg[k])),
        k, s.seg[k])

\* the scan of the singly linked mini list: pb follows cb
RECURSIVE remove_scan(_, _, _, _, _)
remove_scan(s, pb, cb, b, fuel) ==
    IF cb = NULL THEN s
    ELSE IF fuel = 0 \/ ~Valid(s, NextField(cb)) THEN [s EXCEPT !.fault = TRUE]
    ELSE IF cb = b
    THEN remove_scan(Wr(Wr(s, NextField(pb), get_next(s, b)),
                        NextField(b), NULL),
                     cb, NULL, b, fuel - 1)
    ELSE remove_scan(s, cb, get_next(s, cb), b, fuel - 1)

\* the last three statements of remove_block
remove_block_clear(s, k, b) ==
    ensure_out(Wr(Wr(s, PrevField(b), NULL), NextField(b), NULL), k, b)

\* b->next->prev = b->prev, after b->prev->next is set
remove_block_next(s, b) ==
    IF get_next(s, b) # NULL
    THEN Wr(s, PrevField(get_next(s, b)), get_prev(s, b))
    ELSE s

\* remove_block of a block that is not the head of its doubly linked list
remove_block_splice(s, k, b) ==
    IF get_next(s, b) = NULL /\ get_prev(s, b) = NULL THEN s
    ELSE remove_block_clear(
           remove_block_next(
             IF get_prev(s, b) # NULL
             THEN Wr(s, NextField(get_prev(s, b)), get_next(s, b))
             ELSE s,
             b),
           k, b)

\* remove_block after its dbg_requires
remove_block_unlink(s, k, b) ==
    IF get_size(s, b) = min_block_size
    THEN IF s.seg[k] = b THEN remove_head(s, k)
         ELSE remove_scan(Touch(s, NextField(s.seg[k])), s.seg[k],
                          get_next(s, s.seg[k]), b, Fuel(s))
    ELSE IF s.seg[k] = b THEN remove_block_clear(remove_head(s, k), k, b)
    ELSE remove_block_splice(Touch(Touch(s, NextField(b)), PrevField(b)),
                             k, b)

remove_block(s, k, b) ==
    remove_block_unlink(
        Touch(Dbg(s, s.seg[k] # NULL /\ b # NULL /\ is_in(s, k, b)), b),
        k, b)

\* a get_class whose sixth class starts at 128 bytes
get_class_late(sz) ==
    IF sz >= min_block_size /\ sz < 32 THEN 0
    ELSE IF sz >= 32 /\ sz < 48 THEN 1
    ELSE IF sz >= 48 /\ sz < 64 THEN 2
    ELSE IF sz >= 64 /\ sz < 80 THEN 3
    ELSE IF sz >= 80 /\ sz < 128 THEN 4
    ELSE IF sz >= 128 /\ sz < 160 THEN 5
    ELSE IF sz >= 160 /\ sz < 208 THEN 6
    ELSE IF sz >= 208 /\ sz < 272 THEN 7
    ELSE IF sz >= 272 /\ sz < 480 THEN 8
    ELSE IF sz >= 480 /\ sz < 800 THEN 9
    ELSE IF sz >= 800 /\ sz < 1728 THEN 10
    ELSE IF sz >= 1728 /\ sz < 3232 THEN 11
    ELSE IF sz >= 3232 /\ sz < 5536 THEN 12
    ELSE IF sz >= 5536 /\ sz < 18736 THEN 13
    ELSE 14

get_class(sz) ==
    IF sz >= min_block_size /\ sz < 32 THEN 0
    ELSE IF sz >= 32 /\ sz < 48 THEN 1
    ELSE IF sz >= 48 /\ sz < 64 THEN 2
    ELSE IF sz >= 64 /\ sz < 80 THEN 3
    ELSE IF sz >= 80 /\ sz < 112 THEN 4
    ELSE IF sz >= 112 /\ sz < 160 THEN 5
    ELSE IF sz >= 160 /\ sz < 208 THEN 6
    ELSE IF sz >= 208 /\ sz < 272 THEN 7
    ELSE IF sz >= 272 /\ sz < 480 THEN 8
    ELSE IF sz >= 480 /\ sz < 800 THEN 9
    ELSE IF sz >= 800 /\ sz < 1728 THEN 10
    ELSE IF sz >= 1728 /\ sz < 3232 THEN 11
    ELSE IF sz >= 3232 /\ sz < 5536 THEN 12
    ELSE IF sz >= 5536 /\ sz < 18736 THEN 13
    ELSE 14

(***************************************************************************)
(* Coalescing, heap extension, splitting, placement.                       *)
(* An operator that returns a block as well returns [s, block].            *)
(***************************************************************************)
\* the write_block and insert_head of case 2
coalesce_merge_next(s, block, size) ==
    [s |-> insert_head(write_block(s, block, size, FALSE, TRUE,
                                   get_prev_mini(s, block)),
                       get_class(size), block),
     block |-> block]

\* the write_block and insert_head of cases 3 and 4
coalesce_merge_prev(s, prev_block, size) ==
    [s |-> insert_head(write_block(s, prev_block, size, FALSE,
                                   get_prev_alloc(s, prev_block),
                                   get_prev_mini(s, prev_block)),
                       get_class(size), prev_block),
     block |-> prev_block]

\* a case 2 that leaves the free next block alone
coalesce_next_kept(s, block, next_block, curr_size) ==
    [s |-> insert_head(s, get_class(curr_size), block), block |-> block]

\* case 2: the next block is free
coalesce_next(s, block, next_block, curr_size) ==
    coalesce_merge_next(
        remove_block(s, get_class(get_size(s, next_block)), next_block),
        block, curr_size + get_size(s, next_block))

\* the reads of find_prev(block)
coalesce_find_prev(s, block) ==
    Touch(IF get_prev_mini(s, block)
          THEN Dbg(s, block # NULL /\ get_size(s, block) # 0)
          ELSE Touch(Dbg(s, block # NULL /\ get_size(s, block) # 0),
                     find_prev_footer(block)),
          find_prev(s, block))

\* case 3 once prev_block is found
coalesce_prev_found(s, prev_block, curr_size) ==
    coalesce_merge_prev(
        remove_block(s, get_class(get_size(s, prev_block)), prev_block),
        prev_block, curr_size + get_size(s, prev_block))

\* a case 3 that leaves the free previous block alone
coalesce_prev_kept(s, block, curr_size) ==
    [s |-> insert_head(s, get_class(curr_size), block), block |-> block]

\* case 3: the previous block is free
coalesce_prev(s, block, curr_size) ==
    coalesce_prev_found(coalesce_find_prev(s, block), find_prev(s, block),
                        curr_size)

\* case 4 once prev_block is found
coalesce_both_found(s, prev_block, next_block, curr_size) ==
    coalesce_merge_prev(
        remove_block(
            remove_block(s, get_class(get_size(s, next_block)), next_block),
            get_class(get_size(s, prev_block)), prev_block),
        prev_block,
        curr_size + get_size(s, prev_block) + get_size(s, next_block))

\* case 4: both neighbours are free
coalesce_both(s, block, next_block, curr_size) ==
    coalesce_both_found(coalesce_find_prev(s, block), find_prev(s, block),
                        next_block, curr_size)

\* the closing write_block of coalesce_block, on the block after the result
\* a closing write_block that marks the block before next_block as allocated
coalesce_write_next_allocated(s, next_block, block) ==
    [s |-> write_block(s, next_block, get_size(s, next_block),
                       get_alloc(s, next_block), TRUE,
                       get_size(s, block) = min_block_size),
     block |-> block]

coalesce_write_next(s, next_block, block) ==
    [s |-> write_block(s, next_block, get_size(s, next_block),
                       get_alloc(s, next_block), FALSE,
                       get_size(s, block) = min_block_size),
     block |-> block]

\* next_block = find_next(block) and the closing write_block; m is [s, block]
coalesce_finish(m) ==
    coalesce_write_next(
        Touch(Dbg(m.s, get_size(m.s, m.block) # 0), find_next(m.s, m.block)),
        find_next(m.s, m.block), m.block)

\* the four cases of coalesce_block
coalesce_cases(s, block, next_block) ==
    coalesce_finish(
        IF get_prev_alloc(s, block) /\ get_alloc(s, next_block)
        THEN [s |-> insert_head(s, get_class(get_size(s, block)), block),
              block |-> block]
        ELSE IF get_prev_alloc(s, block)
        THEN coalesce_next(s, block, next_block, get_size(s, block))
        ELSE IF get_alloc(s, next_block)
        THEN coalesce_prev(s, block, get_size(s, block))
        ELSE coalesce_both(s, block, next_block, get_size(s, block)))

coalesce_block(s, block) ==
    coalesce_cases(
        Touch(Dbg(s, /\ block # NULL
                     /\ ~get_alloc(s, block)
                     /\ get_size(s, block) # 0),
              find_next(s, block)),
        block, find_next(s, block))

\* The heap provider (memlib): grows the region by incr bytes and returns
\* the old end, or refuses.  New words hold FreshWord.
sbrk_refuses(s, incr) ==
    incr < 0 \/ incr >= TooBig \/ Len(s.mem) + incr \div wsize > s.cap

mem_sbrk(s, incr) ==
    [s EXCEPT !.mem = s.mem \o [i \in 1..(incr \div wsize) |-> FreshWord]]

\* extend_heap from write_epilogue on
extend_heap_epilogue(s, block) ==
    coalesce_block(
        write_epilogue(Dbg(s, get_size(s, block) # 0), find_next(s, block)),
        block)

\* extend_heap after mem_sbrk gave size bytes
extend_heap_grown(s, block, size) ==
    extend_heap_epilogue(
        write_block(s, block, size, FALSE, get_prev_alloc(s, block),
                    get_prev_mini(s, block)),
        block)

\* size = round_up(size, dsize) in extend_heap
extend_size(size) == ToInt(round_up(U64(size), dsize))

extend_heap(s, size) ==
    IF sbrk_refuses(s, extend_size(size)) THEN [s |-> s, block |-> NULL]
    ELSE extend_heap_grown(mem_sbrk(s, extend_size(size)),
                           payload_to_header(mem_heap_hi(s) + 1),
                           extend_size(size))

\* dbg_ensures(get_alloc(block)) at the end of split_block
split_block_done(s, block) == Dbg(s, get_alloc(s, block))

\* the else branch of split_block: block_next is the block after block
split_block_keep(s, block, block_next, block_size) ==
    split_block_done(
        write_block(s, block_next, get_size(s, block_next),
                    get_alloc(s, block_next), TRUE,
                    block_size = min_block_size),
        block)

\* the last write_block of the splitting branch: after is the block that
\* follows the remainder
split_block_mark(s, block, after, split_size) ==
    split_block_done(
        write_block(s, after, get_size(s, after), get_alloc(s, after), FALSE,
                    split_size = min_block_size),
        block)

\* block_next = find_next(block_next) in the splitting branch
split_block_after(s, block, block_next, split_size) ==
    split_block_mark(
        Touch(Dbg(Touch(s, block_next), get_size(s, block_next) # 0),
              find_next(s, block_next)),
        block, find_next(s, block_next), split_size)

\* the splitting branch once block is rewritten with asize
split_block_rest(s, block, asize, split_size) ==
    split_block_after(
        insert_head(
            write_block(Dbg(s, get_size(s, block) # 0), find_next(s, block),
                        split_size, FALSE, TRUE, asize = min_block_size),
            get_class(split_size), find_next(s, block)),
        block, find_next(s, block), split_size)

\* split_block after remove_block
split_block_removed(s, block, asize, block_size) ==
    IF USub(block_size, asize) >= min_block_size
    THEN split_block_rest(
           write_block(s, block, asize, TRUE, get_prev_alloc(s, block),
                       get_prev_mini(s, block)),
           block, asize, USub(block_size, asize))
    ELSE split_block_keep(
           Touch(Dbg(s, get_size(s, block) # 0), find_next(s, block)),
           block, find_next(s, block), block_size)

split_block(s, block, asize) ==
    split_block_removed(
        remove_block(Dbg(s, get_alloc(s, block) /\ asize <= get_size(s, block)),
                     get_class(get_size(s, block)), block),
        block, asize, get_size(s, block))

\* the inner loop of find_fit over one list; stop is the early return,
\* wild a walk that left the heap
RECURSIVE fit_list(_, _, _, _, _, _)
fit_list(s, asize, block, better_fit, count, fuel) ==
    IF block = NULL
    THEN [better_fit |-> better_fit, count |-> count, stop |-> FALSE,
          wild |-> FALSE]
    ELSE IF fuel = 0 \/ ~Valid(s, block) \/ ~Valid(s, NextField(block))
    THEN [better_fit |-> better_fit, count |-> count, stop |-> TRUE,
          wild |-> TRUE]
    ELSE LET fits == asize <= get_size(s, block)
             bf == IF ~fits THEN better_fit
                   ELSE IF better_fit = NULL THEN block
                   ELSE IF get_size(s, block) < get_size(s, better_fit)
                   THEN block
                   ELSE better_fit
             c == IF fits THEN count + 1 ELSE count
         IN  IF c >= max_search
             THEN [better_fit |-> bf, count |-> c, stop |-> TRUE,
                   wild |-> FALSE]
             ELSE fit_list(s, asize, get_next(s, block), bf, c, fuel - 1)

\* the outer loop of find_fit over the classes: r is what the inner loop
\* over list class - 1 gave
RECURSIVE fit_class(_, _, _, _)
fit_class(s, asize, class, r) ==
    IF r.stop THEN [block |-> r.better_fit, wild |-> r.wild]
    ELSE IF ~(class < NUM_CLASSES /\ r.better_fit = NULL)
    THEN [block |-> r.better_fit, wild |-> FALSE]
    ELSE fit_class(s, asize, class + 1,
                   fit_list(s, asize, s.seg[class], r.better_fit, r.count,
                            Fuel(s)))

\* a find_fit that looks into the list of the class of asize only
find_fit_one_class(s, asize) ==
    fit_class(s, asize, NUM_CLASSES,
              fit_list(s, asize, s.seg[get_class(asize)], NULL, 0, Fuel(s)))

find_fit(s, asize) ==
    fit_class(s, asize, get_class(asize),
              [better_fit |-> NULL, count |-> 0, stop |-> FALSE,
               wild |-> FALSE])

(***************************************************************************)
(* The heap checker.                                                       *)
(***************************************************************************)
check_block(s, block) ==
    \* "!(size_t)block % dsize" is (!block) % dsize: it fires for NULL only
    IF block = NULL THEN FALSE
    ELSE IF ~(block > mem_heap_lo /\ block < mem_heap_hi(s)) THEN FALSE
    ELSE IF get_size(s, block) < min_block_size THEN FALSE
    ELSE IF /\ ~get_alloc(s, block)
            /\ get_size(s, block) # min_block_size
            /\ \/ get_size(s, block)
                    # extract_size(Rd(s, header_to_footer(s, block)))
               \/ get_alloc(s, block)
                    # extract_alloc(Rd(s, header_to_footer(s, block)))
    THEN FALSE
    ELSE IF /\ ~get_alloc(s, block)
            /\ \/ ~get_prev_alloc(s, block)
               \/ ~get_alloc(s, find_next(s, block))
    THEN FALSE
    ELSE TRUE

\* the loop of check_free_list: [ok, num_blocks, total_size]
RECURSIVE check_free_list_from(_, _, _, _, _, _)
check_free_list_from(s, class, b, num_blocks, total_size, fuel) ==
    IF b = NULL
    THEN [ok |-> TRUE, num_blocks |-> num_blocks, total_size |-> total_size]
    ELSE IF \/ fuel = 0
            \/ get_alloc(s, b)
            \/ get_class(get_size(s, b)) # class
            \/ ~(b > mem_heap_lo /\ b < mem_heap_hi(s))
            \/ /\ get_size(s, b) # min_block_size
               /\ get_next(s, b) # NULL
               /\ b # get_prev(s, get_next(s, b))
    THEN [ok |-> FALSE, num_blocks |-> num_blocks, total_size |-> total_size]
    ELSE check_free_list_from(s, class, get_next(s, b), num_blocks + 1,
                              total_size + get_size(s, b), fuel - 1)

check_free_list(s, class, num_blocks, total_size) ==
    check_free_list_from(s, class, s.seg[class], num_blocks, total_size,
                         Fuel(s))

\* the second loop of mm_checkheap, over the classes: r is what the lists
\* before class gave
RECURSIVE check_lists(_, _, _)
check_lists(s, class, r) ==
    IF ~r.ok \/ class >= NUM_CLASSES THEN r
    ELSE check_lists(s, class + 1,
                     check_free_list(s, class, r.num_blocks, r.total_size))

\* the first loop of mm_checkheap: [ok, block, num_free_blocks, free_size]
RECURSIVE check_walk(_, _, _, _, _, _)
check_walk(s, block, prev_block, num_free_blocks, free_size, fuel) ==
    IF ~(get_size(s, block) > 0) \/ fuel = 0
    THEN [ok |-> TRUE, block |-> block, num_free_blocks |-> num_free_blocks,
          free_size |-> free_size]
    ELSE IF \/ ~check_block(s, block)
            \/ /\ prev_block # NULL
               /\ \/ get_alloc(s, prev_block) # get_prev_alloc(s, block)
                  \/ /\ get_size(s, prev_block) = min_block_size
                     /\ ~get_prev_mini(s, block)
    THEN [ok |-> FALSE, block |-> block, num_free_blocks |-> num_free_blocks,
          free_size |-> free_size]
    ELSE check_walk(s, find_next(s, block), block,
                    IF get_alloc(s, block) THEN num_free_blocks
                    ELSE num_free_blocks + 1,
                    IF get_alloc(s, block) THEN free_size
                    ELSE free_size + get_size(s, block),
                    fuel - 1)

\* mm_checkheap after both loops: w is what the walk gave, l what the lists
\* gave.  check_free_list is handed &free_size, so tsize stays 0 and l's
\* total_size is free_size.
check_totals(s, w, l) ==
    /\ l.ok
    /\ ~(w.num_free_blocks # l.num_blocks /\ l.total_size # 0)
    /\ ~(get_size(s, w.block) # 0 \/ ~get_alloc(s, w.block))

\* mm_checkheap after the walk
check_after_walk(s, w) ==
    /\ w.ok
    /\ check_totals(s, w,
                    check_lists(s, 0, [ok |-> TRUE, num_blocks |-> 0,
                                       total_size |-> w.free_size]))

mm_checkheap(s) ==
    /\ ~(\/ get_size(s, find_prev(s, s.heap_start)) # 0
         \/ ~get_alloc(s, find_prev(s, s.heap_start)))
    /\ check_after_walk(s, check_walk(s, s.heap_start, NULL, 0, 0, Fuel(s)))

\* dbg_requires(mm_checkheap(__LINE__)) / dbg_ensures(mm_checkheap(__LINE__))
checked(s) == Dbg(s, mm_checkheap(s))

(***************************************************************************)
(* Byte copy and byte fill (little endian).  Stored words stay below 2^32, *)
(* so a copy of 4 or more low bytes of a word copies the whole value.      *)
(***************************************************************************)
Pow256(k) == IF k = 1 THEN 256 ELSE IF k = 2 THEN 65536 ELSE 16777216

\* the low k bytes of src over dst, 0 < k < 8
Mix(src, dst, k) ==
    IF k >= 4 THEN src
    ELSE (src % Pow256(k)) + (dst - (dst % Pow256(k)))

\* word i of the n-byte copy
copy_word(s, dst, src, n, i) ==
    Wr(Touch(s, src + wsize * i), dst + wsize * i,
       IF n - wsize * i >= wsize THEN Rd(s, src + wsize * i)
       ELSE Mix(Rd(s, src + wsize * i), Rd(s, dst + wsize * i),
                n - wsize * i))

RECURSIVE copy_up(_, _, _, _, _)
copy_up(s, dst, src, n, i) ==
    IF wsize * i >= n \/ s.fault THEN s
    ELSE copy_up(copy_word(s, dst, src, n, i), dst, src, n, i + 1)

RECURSIVE copy_down(_, _, _, _, _)
copy_down(s, dst, src, n, i) ==
    IF i < 0 \/ s.fault THEN s
    ELSE copy_down(copy_word(s, dst, src, n, i), dst, src, n, i - 1)

\* the areas [dst, dst + n) and [src, src + n) share a byte
overlap(dst, src, n) == n > 0 /\ dst < src + n /\ src < dst + n

\* memcpy; the order of the word copies shows only when the areas overlap,
\* which memcpy leaves undefined: up is either order
memcpy(s, dst, src, n, up) ==
    IF n >= TooBig THEN [s EXCEPT !.fault = TRUE]
    ELSE IF up THEN copy_up(s, dst, src, n, 0)
    ELSE copy_down(s, dst, src, n, (n + wsize - 1) \div wsize - 1)

RECURSIVE fill_zero(_, _, _, _)
fill_zero(s, dst, n, i) ==
    IF wsize * i >= n \/ s.fault THEN s
    ELSE fill_zero(Wr(s, dst + wsize * i,
                      IF n - wsize * i >= wsize THEN 0
                      ELSE Mix(0, Rd(s, dst + wsize * i), n - wsize * i)),
                   dst, n, i + 1)

\* memset(bp, 0, n)
memset(s, dst, n) ==
    IF n >= TooBig THEN [s EXCEPT !.fault = TRUE] ELSE fill_zero(s, dst, n, 0)

(***************************************************************************)
(* The public operations.  Each returns [s, bp] (mm_init: [s, ok]; free:   *)
(* s).                                                                     *)
(***************************************************************************)
mm_init_extended(e) == [s |-> e.s, ok |-> e.block # NULL]

\* an mm_init that starts with two chunks
mm_init_grown_double(s, start) ==
    mm_init_extended(
        extend_heap(
            [Wr(Wr(s, start, pack(0, TRUE, TRUE, FALSE)),
                start + wsize, pack(0, TRUE, TRUE, FALSE))
             EXCEPT !.heap_start = start + wsize,
                    !.seg = [k \in 0..(NUM_CLASSES - 1) |-> NULL]],
            2 * chunksize))

\* mm_init after mem_sbrk gave the two words at start
mm_init_grown(s, start) ==
    mm_init_extended(
        extend_heap(
            [Wr(Wr(s, start, pack(0, TRUE, TRUE, FALSE)),
                start + wsize, pack(0, TRUE, TRUE, FALSE))
             EXCEPT !.heap_start = start + wsize,
                    !.seg = [k \in 0..(NUM_CLASSES - 1) |-> NULL]],
            chunksize))

mm_init(s) ==
    IF sbrk_refuses(s, 2 * wsize) THEN [s |-> s, ok |-> FALSE]
    ELSE mm_init_grown(mem_sbrk(s, 2 * wsize), mem_heap_hi(s) + 1)

\* asize of malloc: the adjusted block size of a request
adjust(size) ==
    IF Lt64(round_up(Add64(size, U64(wsize)), dsize), U64(min_block_size))
    THEN U64(min_block_size)
    ELSE round_up(Add64(size, U64(wsize)), dsize)

\* malloc from "Mark block as allocated" on; e is [s, block]
malloc_place(e, asize) ==
    IF e.block = NULL THEN [s |-> e.s, bp |-> NULL]
    ELSE [s |-> checked(
                  split_block(
                    write_block(Dbg(Touch(e.s, e.block),
                                    ~get_alloc(e.s, e.block)),
                                e.block, get_size(e.s, e.block), TRUE,
                                get_prev_alloc(e.s, e.block),
                                get_prev_mini(e.s, e.block)),
                    e.block, asize)),
          bp |-> header_to_payload(e.block)]

\* a malloc that extends the heap by asize only
malloc_found_tight(s, asize, f) ==
    IF f.wild THEN [s |-> [s EXCEPT !.fault = TRUE], bp |-> NULL]
    ELSE malloc_place(IF f.block = NULL
                      THEN extend_heap(s, asize)
                      ELSE [s |-> s, block |-> f.block],
                      asize)

\* malloc after find_fit; f is [block, wild]
malloc_found(s, asize, f) ==
    IF f.wild THEN [s |-> [s EXCEPT !.fault = TRUE], bp |-> NULL]
    ELSE malloc_place(IF f.block = NULL
                      THEN extend_heap(s, max(asize, chunksize))
                      ELSE [s |-> s, block |-> f.block],
                      asize)

\* a malloc that serves a request of 0 bytes like any other
malloc_sized_any(s, size) ==
    malloc_found(s, ToInt(adjust(size)), find_fit(s, ToInt(adjust(size))))

\* malloc on an initialized heap
malloc_sized(s, size) ==
    IF size = U64(0) THEN [s |-> checked(s), bp |-> NULL]
    ELSE malloc_found(s, ToInt(adjust(size)), find_fit(s, ToInt(adjust(size))))

\* malloc after its call of mm_init; i is [s, ok]
malloc_init(i, size) ==
    IF ~i.ok THEN [s |-> i.s, bp |-> NULL] ELSE malloc_sized(i.s, size)

\* malloc after its dbg_requires
malloc_checked(s, size) ==
    IF s.heap_start = NULL THEN malloc_init(mm_init(s), size)
    ELSE malloc_sized(s, size)

malloc(s, size) == malloc_checked(checked(s), size)

\* free of a block that is not NULL
free_block(s, block) ==
    checked(
      coalesce_block(
        write_block(Dbg(s, get_alloc(s, block)), block, get_size(s, block),
                    FALSE, get_prev_alloc(s, block), get_prev_mini(s, block)),
        block).s)

\* free after its dbg_requires
free_checked(s, bp) ==
    IF bp = NULL THEN s
    ELSE free_block(Touch(s, payload_to_header(bp)), payload_to_header(bp))

free(s, bp) == free_checked(checked(s), bp)

\* copysize of realloc: the old payload size, or size if that is smaller
realloc_copysize(s, ptr, size) ==
    IF Lt64(size, U64(USub(get_size(s, payload_to_header(ptr)), wsize)))
    THEN ToInt(size)
    ELSE USub(get_size(s, payload_to_header(ptr)), wsize)

\* a realloc that gives the old block up when its malloc fails
realloc_copy_frees(m, ptr, size, up) ==
    IF m.bp = NULL THEN [s |-> free(m.s, ptr), bp |-> NULL]
    ELSE [s |-> free(memcpy(Touch(m.s, payload_to_header(ptr)), m.bp, ptr,
                            realloc_copysize(m.s, ptr, size), up),
                     ptr),
          bp |-> m.bp]

\* realloc after its call of malloc; m is [s, bp]
realloc_copy(m, ptr, size, up) ==
    IF m.bp = NULL THEN m
    ELSE [s |-> free(memcpy(Touch(m.s, payload_to_header(ptr)), m.bp, ptr,
                            realloc_copysize(m.s, ptr, size), up),
                     ptr),
          bp |-> m.bp]

\* a realloc that allocates nothing when it is given no block
realloc_strict(s, ptr, size, up) ==
    IF size = U64(0) THEN [s |-> free(s, ptr), bp |-> NULL]
    ELSE IF ptr = NULL THEN [s |-> s, bp |-> NULL]
    ELSE realloc_copy(malloc(s, size), ptr, size, up)

realloc(s, ptr, size, up) ==
    IF size = U64(0) THEN [s |-> free(s, ptr), bp |-> NULL]
    ELSE IF ptr = NULL THEN malloc(s, size)
    ELSE realloc_copy(malloc(s, size), ptr, size, up)

\* a calloc that hands the block out as malloc left it
calloc_fill_none(m, n) == m

\* calloc after its call of malloc; m is [s, bp]
calloc_fill(m, n) ==
    IF m.bp = NULL THEN m
    ELSE [s |-> memset(m.s, m.bp, n), bp |-> m.bp]

\* a calloc that does not check its product
calloc_unchecked(s, elements, size) ==
    IF elements = 0 THEN [s |-> s, bp |-> NULL]
    ELSE calloc_fill(malloc(s, Mul64(size, elements)),
                     ToInt(Mul64(size, elements)))

\* calloc for an element count below 2^15
calloc(s, elements, size) ==
    IF elements = 0 THEN [s |-> s, bp |-> NULL]
    ELSE IF Div64(Mul64(size, elements), elements) # size
    THEN [s |-> s, bp |-> NULL]
    ELSE calloc_fill(malloc(s, Mul64(size, elements)),
                     ToInt(Mul64(size, elements)))

(***************************************************************************)
(* The state machine: the allocator, driven by a caller that keeps to the  *)
(* API (initialize first; free and reallocate only live pointers; writes   *)
(* only inside the payload of a live allocation).                          *)
(***************************************************************************)
VARIABLES
    mem,         \* the heap region, a sequence of words
    seg_list,    \* seg_list[0..14]
    heap_start,  \* heap_start, NULL before mm_init
    dbg,         \* every debug assertion reached so far held
    fault,       \* a wild access ended the run
    live,        \* the payload pointers of the live allocations
    last,        \* the last call: its name, arguments and return value
    steps,       \* calls and stores made after initialize
    overflowed,  \* some request so far was so large that its asize wrapped
    cap,         \* capacity of the heap provider, in words
    trail        \* the calls made so far by the caller that follows a plan

vars == <<mem, seg_list, heap_start, dbg, fault, live, last, steps,
          overflowed, cap, trail>>

\* what the caller asks for: ordinary sizes, and sizes at the top of size_t
ReqSizes ==
    {U64(0), U64(1)} \cup {U64(wsize * (2 * w - 1)) : w \in 2..MaxReqWords}
WrapSizes == {Neg64(23), Neg64(24)}
ReallocSizes ==
    {U64(0), U64(1), U64(wsize * (2 * MaxReqWords - 1)), Neg64(23)}
\* the sizes asked of realloc(NULL, size)
NullReallocSizes == {U64(0), U64(wsize * (2 * MaxReqWords - 1)), Neg64(23)}
\* element counts and element sizes of the calloc calls
Counts == {0, 2, 3}
\* 0, one word, 2^63 (twice it wraps to 0) and 0x5555555555555558 (three
\* times it wraps to 8)
ElemSizes ==
    {U64(0), U64(wsize), <<0, 0, 0, 32768>>, <<21848, 21845, 21845, 21845>>}
\* the calloc calls made: (elements, size)
CallocArgs ==
    {<<0, U64(wsize)>>, <<3, U64(wsize)>>, <<2, U64(0)>>,
     <<2, <<0, 0, 0, 32768>>>>, <<3, <<21848, 21845, 21845, 21845>>>>}
\* the words the caller stores into an allocation: a small number, zero,
\* an address inside the heap
StoreData == <<min_block_size, NULL, HeapBase + 48>>

\* size + wsize + (dsize - 1), the sum malloc's round_up forms, passes 2^64
Wraps(size) == Lt64(Add64(size, U64(wsize + dsize - 1)), size)

Cur == [mem |-> mem, seg |-> seg_list, heap_start |-> heap_start,
        dbg |-> dbg, fault |-> FALSE, cap |-> cap]

Call(op, ptr, n, size, ret) ==
    [op |-> op, ptr |-> ptr, n |-> n, size |-> size, ret |-> ret]

\* the allocator's part of the step: s is the state the call returned in
Commit(s) ==
    IF s.fault
    THEN /\ fault' = TRUE
         /\ UNCHANGED <<mem, seg_list, heap_start, dbg>>
    ELSE /\ mem' = s.mem
         /\ seg_list' = s.seg
         /\ heap_start' = s.heap_start
         /\ dbg' = s.dbg
         /\ fault' = FALSE

\* live after a call that released old (or NULL) and returned bp (or NULL)
Relive(s, old, bp) ==
    IF s.fault THEN live
    ELSE (live \ {old}) \cup (IF bp = NULL THEN {} ELSE {bp})

\* the orders in which memcpy may copy in realloc(ptr, size), whose call of
\* malloc returned m
OrdersAfter(m, ptr, size) ==
    IF /\ m.bp # NULL
       /\ overlap(m.bp, ptr, realloc_copysize(m.s, ptr, size))
    THEN BOOLEAN
    ELSE {TRUE}

Orders(s, ptr, size) ==
    IF ptr = NULL \/ size = U64(0) THEN {TRUE}
    ELSE OrdersAfter(malloc(s, size), ptr, size)

\* the words of the payload at p that the caller may write
StoreWords(s, p) ==
    {i \in 1..Len(StoreData) :
        /\ wsize * i <= get_payload_size(s, payload_to_header(p))
        /\ Valid(s, p + wsize * (i - 1))}

RECURSIVE store(_, _, _)
store(s, p, i) ==
    IF i \notin StoreWords(s, p) THEN s
    ELSE store(Wr(s, p + wsize * (i - 1), StoreData[i]), p, i + 1)

Init ==
    /\ mem = <<>>
    /\ seg_list = [k \in 0..(NUM_CLASSES - 1) |-> NULL]
    /\ heap_start = NULL
    /\ dbg = TRUE
    /\ fault = FALSE
    /\ live = {}
    /\ last = Call("none", NULL, 0, U64(0), NULL)
    /\ steps = 0
    /\ overflowed = FALSE
    /\ cap = MaxHeapWords
    /\ trail = <<>>

\* last after mm_init returned r
MmInitDone(r) ==
    /\ Commit(r.s)
    /\ last' = Call("mm_init", NULL, 0, U64(0), IF r.ok THEN 1 ELSE 0)

MmInit ==
    /\ ~fault
    /\ heap_start = NULL
    /\ MmInitDone(mm_init(Cur))
    /\ UNCHANGED <<live, steps, overflowed, cap, trail>>

\* live and last after malloc(size) returned r
MallocDone(r, size) ==
    /\ Commit(r.s)
    /\ last' = Call("malloc", NULL, 0, size, r.bp)
    /\ live' = Relive(r.s, NULL, r.bp)
    /\ overflowed' = (overflowed \/ Wraps(size))

Malloc ==
    /\ ~fault
    /\ heap_start # NULL
    /\ steps < MaxSteps
    /\ Cardinality(live) < MaxLive
    /\ \E size \in ReqSizes \cup WrapSizes :
         MallocDone(malloc(Cur, size), size)
    /\ steps' = steps + 1
    /\ UNCHANGED <<cap, trail>>

\* live and last after free(p) returned in state s
FreeDone(s, p) ==
    /\ Commit(s)
    /\ last' = Call("free", p, 0, U64(0), NULL)
    /\ live' = Relive(s, p, NULL)
    /\ UNCHANGED overflowed

Free ==
    /\ ~fault
    /\ heap_start # NULL
    /\ steps < MaxSteps
    /\ \E p \in live \cup {NULL} : FreeDone(free(Cur, p), p)
    /\ steps' = steps + 1
    /\ UNCHANGED <<cap, trail>>

\* live and last after realloc(p, size) returned r
ReallocDone(r, p, size) ==
    /\ Commit(r.s)
    /\ last' = Call("realloc", p, 0, size, r.bp)
    /\ live' = IF size # U64(0) /\ r.bp = NULL THEN live
               ELSE Relive(r.s, p, r.bp)
    /\ overflowed' = (overflowed \/ Wraps(size))

Realloc ==
    /\ ~fault
    /\ heap_start # NULL
    /\ steps < MaxSteps
    /\ \E p \in live \cup {NULL}, size \in ReallocSizes :
         /\ p = NULL =>
              (size \in NullReallocSizes /\ Cardinality(live) < MaxLive)
         /\ \E up \in Orders(Cur, p, size) :
              ReallocDone(realloc(Cur, p, size, up), p, size)
    /\ steps' = steps + 1
    /\ UNCHANGED <<cap, trail>>

\* live and last after calloc(n, size) returned r
CallocDone(r, n, size) ==
    /\ Commit(r.s)
    /\ last' = Call("calloc", NULL, n, size, r.bp)
    /\ live' = Relive(r.s, NULL, r.bp)
    /\ overflowed' = (overflowed \/ (r.bp # NULL /\ Wraps(Mul64(size, n))))

Calloc ==
    /\ ~fault
    /\ heap_start # NULL
    /\ steps < MaxSteps
    /\ Cardinality(live) < MaxLive
    /\ \E a \in CallocArgs :
         CallocDone(calloc(Cur, a[1], a[2]), a[1], a[2])
    /\ steps' = steps + 1
    /\ UNCHANGED <<cap, trail>>

\* the caller writes StoreData into a live allocation
Store ==
    /\ ~fault
    /\ steps < MaxSteps
    /\ \E p \in live :
         /\ StoreWords(Cur, p) # {}
         /\ mem' = store(Cur, p, 1).mem
         /\ last' = Call("store", p, 0, U64(0), NULL)
    /\ steps' = steps + 1
    /\ UNCHANGED <<cap, trail>>
    /\ UNCHANGED <<seg_list, heap_start, dbg, fault, live, overflowed>>

Next == MmInit \/ Malloc \/ Free \/ Realloc \/ Calloc \/ Store

Spec == Init /\ [][Next]_vars

(***************************************************************************)
(* Longer histories of the same calls.  The caller makes no store and no   *)
(* request for nothing: malloc of the ordinary sizes, calloc(3, 8), free   *)
(* and realloc of live pointers.                                           *)
(***************************************************************************)
DeepSizes == ReqSizes \ {U64(0)}
DeepReallocSizes == ReallocSizes \ {U64(0)}
DeepCallocArgs == {a \in CallocArgs : a[1] = 3 /\ a[2] = U64(wsize)}

DeepMalloc ==
    /\ ~fault
    /\ heap_start # NULL
    /\ steps < MaxDeepSteps
    /\ Cardinality(live) < MaxLive
    /\ \E size \in DeepSizes : MallocDone(malloc(Cur, size), size)
    /\ steps' = steps + 1
    /\ UNCHANGED <<cap, trail>>

DeepFree ==
    /\ ~fault
    /\ heap_start # NULL
    /\ steps < MaxDeepSteps
    /\ \E p \in live : FreeDone(free(Cur, p), p)
    /\ steps' = steps + 1
    /\ UNCHANGED <<cap, trail>>

DeepRealloc ==
    /\ ~fault
    /\ heap_start # NULL
    /\ steps < MaxDeepSteps
    /\ \E p \in live, size \in DeepReallocSizes :
         \E up \in Orders(Cur, p, size) :
            ReallocDone(realloc(Cur, p, size, up), p, size)
    /\ steps' = steps + 1
    /\ UNCHANGED <<cap, trail>>

DeepCalloc ==
    /\ ~fault
    /\ heap_start # NULL
    /\ steps < MaxDeepSteps
    /\ Cardinality(live) < MaxLive
    /\ \E a \in DeepCallocArgs :
         CallocDone(calloc(Cur, a[1], a[2]), a[1], a[2])
    /\ steps' = steps + 1
    /\ UNCHANGED <<cap, trail>>

DeepNext == MmInit \/ DeepMalloc \/ DeepFree \/ DeepRealloc \/ DeepCalloc

DeepSpec == Init /\ [][DeepNext]_vars

(***************************************************************************)
(* A caller that follows a plan on a freshly initialized heap.  A plan is  *)
(* a sequence of calls: <<"malloc", size>>, or <<"free", j>> for the free  *)
(* of what call j of the plan returned.  The provider has room for the     *)
(* largest plan.                                                           *)
(***************************************************************************)
PlanMallocOf(n) == <<"malloc", n>>
PlanFreeOf(j) == <<"free", j>>

\* allocate(n), then free of the result
RoundTripSizes ==
    {U64(1), U64(wsize), U64(24), U64(57), U64(100), U64(500), U64(2000),
     Neg64(23)}
RoundTrips == {<<PlanMallocOf(n), PlanFreeOf(1)>> : n \in RoundTripSizes}

\* allocate(16) three times, then free of the second result; or free of the
\* first and then of the second
ThreeOfSixteen ==
    <<PlanMallocOf(U64(16)), PlanMallocOf(U64(16)), PlanMallocOf(U64(16))>>
FreeMiddle == ThreeOfSixteen \o <<PlanFreeOf(2)>>
FreeFirstSecond == ThreeOfSixteen \o <<PlanFreeOf(1), PlanFreeOf(2)>>

\* allocate each of sizes with an allocate(1) behind it, which keeps the
\* blocks apart; free them in the given order (block j is call 2j - 1);
\* then allocate(ask)
RECURSIVE Spaced(_)
Spaced(sizes) ==
    IF sizes = <<>> THEN <<>>
    ELSE <<PlanMallocOf(U64(Head(sizes))), PlanMallocOf(U64(1))>>
           \o Spaced(Tail(sizes))

Arrange(sizes, order, ask) ==
    Spaced(sizes)
      \o [i \in 1..Len(order) |-> PlanFreeOf(2 * order[i] - 1)]
      \o <<PlanMallocOf(U64(ask))>>

\* free blocks of 48, 64 and 80 bytes, then allocate(40)
ThreeClasses == Arrange(<<40, 56, 72>>, <<2, 1, 3>>, 40)
\* the same blocks freed in the order of their addresses, then allocate(56)
ThreeClassesMiddle == Arrange(<<40, 56, 72>>, <<1, 2, 3>>, 56)

\* seven free blocks of one class, six of 96 bytes and one of 80, freed in
\* several orders, then allocate(72)
SevenSizes == <<88, 88, 88, 88, 88, 88, 72>>
SevenOrders ==
    {<<7, 1, 2, 3, 4, 5, 6>>, <<1, 7, 2, 3, 4, 5, 6>>,
     <<1, 2, 7, 3, 4, 5, 6>>, <<1, 2, 3, 7, 4, 5, 6>>,
     <<1, 2, 3, 4, 7, 5, 6>>, <<1, 2, 3, 4, 5, 7, 6>>,
     <<1, 2, 3, 4, 5, 6, 7>>, <<6, 5, 4, 3, 2, 1, 7>>}
SevenOfAClass == {Arrange(SevenSizes, order, 72) : order \in SevenOrders}

\* allocate(16) three times, then free of the third, second and first
\* result, and of the first, third and second
FreeBackwards ==
    ThreeOfSixteen \o <<PlanFreeOf(3), PlanFreeOf(2), PlanFreeOf(1)>>
FreeMiddleLast ==
    ThreeOfSixteen \o <<PlanFreeOf(1), PlanFreeOf(3), PlanFreeOf(2)>>

Plans == RoundTrips
           \cup {FreeMiddle, FreeFirstSecond, FreeBackwards, FreeMiddleLast,
                 ThreeClasses, ThreeClassesMiddle}
           \cup SevenOfAClass

\* call i of the trail t is the plan entry e
Matches(t, i, e) ==
    /\ t[i].op = e[1]
    /\ IF e[1] = "malloc" THEN t[i].size = e[2]
       ELSE t[i].ptr = t[e[2]].ret

\* the calls made so far are the first calls of plan
Follows(t, plan) ==
    /\ Len(t) <= Len(plan)
    /\ \A i \in 1..Len(t) : Matches(t, i, plan[i])

\* the calls a plan has next
NextEntries ==
    {plan[Len(trail) + 1] :
        plan \in {q \in Plans : Len(q) > Len(trail) /\ Follows(trail, q)}}

PlanInit ==
    /\ mem = <<>>
    /\ seg_list = [k \in 0..(NUM_CLASSES - 1) |-> NULL]
    /\ heap_start = NULL
    /\ dbg = TRUE
    /\ fault = FALSE
    /\ live = {}
    /\ last = Call("none", NULL, 0, U64(0), NULL)
    /\ steps = 0
    /\ overflowed = FALSE
    /\ cap = MaxPlanHeapWords
    /\ trail = <<>>

PlanMalloc ==
    /\ ~fault
    /\ heap_start # NULL
    /\ \E e \in NextEntries :
         /\ e[1] = "malloc"
         /\ MallocDone(malloc(Cur, e[2]), e[2])
    /\ trail' = Append(trail, last')
    /\ steps' = steps + 1
    /\ UNCHANGED cap

PlanFree ==
    /\ ~fault
    /\ heap_start # NULL
    /\ \E e \in NextEntries :
         /\ e[1] = "free"
         /\ FreeDone(free(Cur, trail[e[2]].ret), trail[e[2]].ret)
    /\ trail' = Append(trail, last')
    /\ steps' = steps + 1
    /\ UNCHANGED cap

PlanNext == MmInit \/ PlanMalloc \/ PlanFree

PlanSpec == PlanInit /\ [][PlanNext]_vars

(***************************************************************************)
(* The heap checker as a function of the heap it is handed: the heaps the  *)
(* allocator builds, and those heaps after one stray store, which is what  *)
(* mm_checkheap is there to find.  The store overwrites one word of the    *)
(* heap region (it clears the word or flips one of its three flag bits)    *)
(* or one head of seg_list (it then holds an address inside the heap).     *)
(* trail records the store; nothing is allocated or freed after it.        *)
(***************************************************************************)
FlipBit(word, mask) ==
    IF (word \div mask) % 2 = 1 THEN word - mask ELSE word + mask

\* what a stray store leaves in a word that held old
StrayWords(old) ==
    {0, FlipBit(old, alloc_mask), FlipBit(old, prev_alloc_mask),
     FlipBit(old, prev_miniblock_mask)}

CheckMalloc ==
    /\ ~fault
    /\ heap_start # NULL
    /\ trail = <<>>
    /\ steps < MaxCheckCalls
    /\ \E size \in ReqSizes : MallocDone(malloc(Cur, size), size)
    /\ steps' = steps + 1
    /\ UNCHANGED <<cap, trail>>

CheckFree ==
    /\ ~fault
    /\ heap_start # NULL
    /\ trail = <<>>
    /\ steps < MaxCheckCalls
    /\ \E p \in live : FreeDone(free(Cur, p), p)
    /\ steps' = steps + 1
    /\ UNCHANGED <<cap, trail>>

StrayStore ==
    /\ ~fault
    /\ heap_start # NULL
    /\ trail = <<>>
    /\ \E i \in 1..Len(mem) :
         \E v \in StrayWords(mem[i]) \ {mem[i]} :
            /\ mem' = [mem EXCEPT ![i] = v]
            /\ last' = Call("store", HeapBase + wsize * (i - 1), 0, U64(0), v)
    /\ trail' = <<last'>>
    /\ UNCHANGED <<seg_list, heap_start, dbg, fault, live, steps, overflowed,
                   cap>>

\* the head then points at a word that has a word after it, so that the
\* checker reads the block's header and link inside the heap
StrayHead ==
    /\ ~fault
    /\ heap_start # NULL
    /\ trail = <<>>
    /\ \E k \in 0..(NUM_CLASSES - 1) :
         \E i \in 1..(Len(mem) - 1) :
            /\ seg_list[k] # HeapBase + wsize * (i - 1)
            /\ seg_list' =
                 [seg_list EXCEPT ![k] = HeapBase + wsize * (i - 1)]
            /\ last' = Call("store", NULL, k, U64(0),
                            HeapBase + wsize * (i - 1))
    /\ trail' = <<last'>>
    /\ UNCHANGED <<mem, heap_start, dbg, fault, live, steps, overflowed, cap>>

\* mm_checkheap(__LINE__), called on the heap as it stands
CheckHeap ==
    /\ ~fault
    /\ heap_start # NULL
    /\ last.op # "mm_checkheap"
    /\ last' = Call("mm_checkheap", NULL, 0, U64(0),
                    IF mm_checkheap(Cur) THEN 1 ELSE 0)
    /\ UNCHANGED <<mem, seg_list, heap_start, dbg, fault, live, steps,
                   overflowed, cap, trail>>

CheckNext ==
    MmInit \/ CheckMalloc \/ CheckFree \/ StrayStore \/ StrayHead \/ CheckHeap

CheckSpec == Init /\ [][CheckNext]_vars

(***************************************************************************)
(* get_class as a function of the size it is handed: the sizes blocks      *)
(* have, the multiples of 16 from 16 up to 16 * MaxClassUnits.             *)
(***************************************************************************)
BlockSizes == {dsize * n : n \in 1..MaxClassUnits}

\* get_class(sz); last holds the size and the index returned
GetClass ==
    /\ \E sz \in BlockSizes :
         last' = Call("get_class", NULL, 0, U64(sz), get_class(sz))
    /\ UNCHANGED <<mem, seg_list, heap_start, dbg, fault, live, steps,
                   overflowed, cap, trail>>

ClassNext == GetClass

ClassSpec == Init /\ [][ClassNext]_vars

(***************************************************************************)
(* What the claims speak of: the implicit walk and the lists of the        *)
(* current state.                                                          *)
(***************************************************************************)
\* initialize has run and no call has crashed
Ready == ~fault /\ heap_start # NULL

\* the headers the walk by header size visits, from block on
RECURSIVE WalkFrom(_, _, _)
WalkFrom(s, block, fuel) ==
    IF fuel = 0 \/ ~Valid(s, block) \/ get_size(s, block) = 0 THEN <<>>
    ELSE <<block>> \o WalkFrom(s, find_next(s, block), fuel - 1)

Walk == WalkFrom(Cur, heap_start, Fuel(Cur))

\* where the walk stops
WalkEnd == IF Walk = <<>> THEN heap_start
           ELSE find_next(Cur, Walk[Len(Walk)])

\* the blocks reached from b by next pointers
RECURSIVE ListFrom(_, _, _)
ListFrom(s, b, fuel) ==
    IF b = NULL \/ fuel = 0 THEN <<>>
    ELSE <<b>> \o ListFrom(s, get_next(s, b), fuel - 1)

List(k) == ListFrom(Cur, seg_list[k], Fuel(Cur))

Classes == 0..(NUM_CLASSES - 1)

IsFree(b) == ~get_alloc(Cur, b)

\* the free blocks of the walk, as positions in Walk
FreeInWalk == {i \in 1..Len(Walk) : IsFree(Walk[i])}

\* how often b occurs in list k
Occurs(k, b) == Cardinality({i \in 1..Len(List(k)) : List(k)[i] = b})

RECURSIVE SumOver(_, _)
SumOver(f, S) ==
    IF S = {} THEN 0
    ELSE LET x == CHOOSE y \in S : TRUE IN f[x] + SumOver(f, S \ {x})

\* one past the last payload byte of the allocation at p
PayloadEnd(p) == p + get_payload_size(Cur, payload_to_header(p))

\* the calls that return an address
Allocating == {"malloc", "realloc", "calloc"}

(***************************************************************************)
(* The claims.                                                             *)
(***************************************************************************)
\* C1: after initialize and any sequence of valid calls, the payload ranges
\* [p, p + block size - 8) of the live allocations are pairwise disjoint, lie
\* between the prologue word and the epilogue word, and hold no header of a
\* block of the walk.
C1_PayloadsApart ==
    Ready =>
      /\ \A p \in live :
           /\ p >= heap_start
           /\ PayloadEnd(p) <= mem_heap_hi(Cur) - 7
           /\ \A i \in 1..Len(Walk) :
                ~(p <= Walk[i] /\ Walk[i] < PayloadEnd(p))
      /\ \A p, q \in live :
           p # q => PayloadEnd(p) <= q \/ PayloadEnd(q) <= p

\* the words of the payload at p, and the size and allocated bit of its
\* header, are the same before and after the step
Untouched(p) ==
    /\ get_size(Cur, payload_to_header(p))
         = extract_size(mem'[Idx(payload_to_header(p))])
    /\ get_alloc(Cur, payload_to_header(p))
         = extract_alloc(mem'[Idx(payload_to_header(p))])
    /\ \A a \in p..(PayloadEnd(p) - 1) :
         Valid(Cur, a) => mem'[Idx(a)] = mem[Idx(a)]

\* C2: a call (or a store) on other pointers leaves every payload byte of a
\* live allocation p, the size field of its header and its allocated bit
\* unchanged.
C2_LiveUntouched ==
    [][(Ready /\ ~fault') =>
         \A p \in (live \cap live') \ {last'.ptr} :
            Valid(Cur, payload_to_header(p)) => Untouched(p)]_vars

\* C3: every non-null address returned by malloc, realloc or calloc is a
\* multiple of 16.
C3_Aligned ==
    (Ready /\ last.op \in Allocating /\ last.ret # NULL)
      => last.ret % dsize = 0

\* C4: whenever malloc(size) returns non-null, for any size > 0 of the 64-bit
\* range, the payload capacity of the returned block (block size - 8) is at
\* least size.
C4_Capacity ==
    (Ready /\ last.op = "malloc" /\ last.ret # NULL)
      => ~Lt64(U64(USub(get_size(Cur, payload_to_header(last.ret)), wsize)),
               last.size)

\* C5: in a debug build mm_checkheap returns true at the entry and the exit
\* of every malloc and free, and every dbg_requires, dbg_assert and
\* dbg_ensures of the helpers holds when reached.
C5_DebugChecksHold == dbg

\* C6: after every call no two blocks next to each other in the heap are
\* both free.
C6_NoAdjacentFree ==
    Ready =>
      \A i \in 1..(Len(Walk) - 1) : ~(IsFree(Walk[i]) /\ IsFree(Walk[i + 1]))

\* the prev-allocated and prev-mini bits of the header at b say what the
\* left neighbour, of size lsize and allocated bit lalloc, is
PrevBitsMatch(b, lsize, lalloc) ==
    /\ get_prev_alloc(Cur, b) = lalloc
    /\ get_prev_mini(Cur, b) = (lsize = min_block_size)

\* C7: after every call every block of the walk, and the epilogue, carries in
\* its prev-allocated and prev-mini bits the allocated bit of its left
\* neighbour and whether that neighbour is 16 bytes; the left neighbour of
\* the first block is the prologue.
C7_PrevBits ==
    Ready =>
      /\ PrevBitsMatch(heap_start,
                       get_size(Cur, heap_start - wsize),
                       get_alloc(Cur, heap_start - wsize))
      /\ \A i \in 1..Len(Walk) :
           PrevBitsMatch(find_next(Cur, Walk[i]), get_size(Cur, Walk[i]),
                         get_alloc(Cur, Walk[i]))

\* C8: after every call the walk visits only blocks whose size is a multiple
\* of 16 and at least 16, the sizes sum to the heap size minus the two
\* sentinel words, the walk ends at a size-0 allocated epilogue in the last 8
\* bytes of the heap, and the prologue word is size-0 and allocated.
C8_WalkTiles ==
    Ready =>
      /\ \A i \in 1..Len(Walk) :
           /\ get_size(Cur, Walk[i]) % dsize = 0
           /\ get_size(Cur, Walk[i]) >= min_block_size
      /\ SumOver([i \in 1..Len(Walk) |-> get_size(Cur, Walk[i])],
                 1..Len(Walk))
           = wsize * Len(mem) - 2 * wsize
      /\ WalkEnd = mem_heap_hi(Cur) - 7
      /\ get_size(Cur, WalkEnd) = 0
      /\ get_alloc(Cur, WalkEnd)
      /\ get_size(Cur, heap_start - wsize) = 0
      /\ get_alloc(Cur, heap_start - wsize)

\* C9: after every call every free block of the walk occurs exactly once in
\* exactly one of the 15 lists, the list of the class of its size; so the
\* walk's count of free blocks is the sum of the list lengths.
C9_FreeListedOnce ==
    Ready =>
      /\ \A i \in FreeInWalk :
           /\ Occurs(get_class(get_size(Cur, Walk[i])), Walk[i]) = 1
           /\ SumOver([k \in Classes |-> Occurs(k, Walk[i])], Classes) = 1
      /\ Cardinality(FreeInWalk)
           = SumOver([k \in Classes |-> Len(List(k))], Classes)

\* C10: after every call every block reached from a list head k by next
\* pointers is the header of a free block of the walk whose size is of class
\* k.
C10_ListsHoldFree ==
    Ready =>
      \A k \in Classes :
        \A j \in 1..Len(List(k)) :
          /\ \E i \in 1..Len(Walk) : Walk[i] = List(k)[j]
          /\ IsFree(List(k)[j])
          /\ get_class(get_size(Cur, List(k)[j])) = k

\* C11: after every call the footer word (the last 8 bytes) of every free
\* block of the walk of 32 bytes or more equals its header word: size,
\* allocated bit, prev-allocated bit and prev-mini bit.
C11_FooterIsHeader ==
    Ready =>
      \A i \in FreeInWalk :
        get_size(Cur, Walk[i]) >= 2 * min_block_size =>
          Rd(Cur, header_to_footer(Cur, Walk[i])) = Rd(Cur, Walk[i])

\* the lists of the blocks of 32 bytes or more
DoubleClasses == 1..(NUM_CLASSES - 1)

\* C12: after every call each list of the classes 1..14 is consistently
\* doubly linked: the prev pointer of its head is null, and x.next.prev = x
\* for every member x with a next.
C12_DoublyLinked ==
    Ready =>
      \A k \in DoubleClasses :
        /\ seg_list[k] # NULL => get_prev(Cur, seg_list[k]) = NULL
        /\ \A j \in 1..Len(List(k)) :
             get_next(Cur, List(k)[j]) # NULL =>
               get_prev(Cur, get_next(Cur, List(k)[j])) = List(k)[j]

\* the size with which the call c reaches malloc's search for a block, or 0
\* when it does not get there
CallSize(c) ==
    IF c.op = "calloc"
    THEN IF c.n = 0 \/ Div64(Mul64(c.size, c.n), c.n) # c.size THEN U64(0)
         ELSE Mul64(c.size, c.n)
    ELSE IF c.op \in {"malloc", "realloc"} THEN c.size
    ELSE U64(0)

\* in the current state no list holds a fit for asize and the heap provider
\* refuses the extension malloc would ask for
NoRoom(asize) ==
    /\ ~find_fit(Cur, asize).wild
    /\ find_fit(Cur, asize).block = NULL
    /\ sbrk_refuses(Cur, extend_size(max(asize, chunksize)))

\* the heap provider refuses the extension that the call c needs
ProviderRefuses(c) ==
    CallSize(c) # U64(0) /\ NoRoom(ToInt(adjust(CallSize(c))))

\* heap bounds, every heap word and all list heads are as before the step
StateKept ==
    /\ mem' = mem
    /\ seg_list' = seg_list
    /\ heap_start' = heap_start

\* C13: when the heap provider refuses to extend, malloc, calloc and realloc
\* return null and leave heap bounds, every heap word and all 15 list heads
\* as they were; the block given to realloc stays live, with the allocated
\* bit and the payload it had before the call.
C13_RefusalKeepsState ==
    [][(Ready /\ ~fault' /\ last'.op \in Allocating /\ steps' # steps
          /\ ProviderRefuses(last'))
         => /\ last'.ret = NULL
            /\ StateKept
            /\ live' = live
            /\ last'.ptr # NULL =>
                 /\ last'.ptr \in live'
                 /\ Valid(Cur, payload_to_header(last'.ptr)) =>
                      Untouched(last'.ptr)
       ]_vars

\* a realloc of a live block to the largest ordinary size has just been
\* refused
C13_Refused ==
    /\ Ready
    /\ last.op = "realloc"
    /\ last.ptr \in live
    /\ last.size = U64(wsize * (2 * MaxReqWords - 1))
    /\ last.ret = NULL
    /\ ProviderRefuses(last)

\* what a * n carries out of 64 bits: 0 exactly when the product fits
MulCarry(a, n) ==
    (a[4] * n
       + ((a[3] * n + ((a[2] * n + ((a[1] * n) \div Limb)) \div Limb))
            \div Limb)) \div Limb

\* C14: calloc(count, size) returns null and leaves the allocator state as it
\* was whenever count * size does not fit in 64 bits; it allocates no block
\* for the wrapped product.
C14_CallocOverflow ==
    [][(Ready /\ ~fault' /\ last'.op = "calloc" /\ steps' # steps
          /\ MulCarry(last'.size, last'.n) # 0)
         => (last'.ret = NULL /\ StateKept /\ live' = live)]_vars

\* calloc(3, 0x5555555555555558), whose product wraps to 8, has returned null
C14_Wrapped ==
    /\ Ready
    /\ last.op = "calloc"
    /\ last.n = 3
    /\ MulCarry(last.size, last.n) # 0
    /\ Mul64(last.size, last.n) = U64(wsize)
    /\ last.ret = NULL

\* the call c asks for nothing
Spurious(c) ==
    \/ c.op = "malloc" /\ c.size = U64(0)
    \/ c.op = "calloc" /\ (c.n = 0 \/ c.size = U64(0))
    \/ c.op = "free" /\ c.ptr = NULL

\* C15: on an initialized allocator malloc(0), calloc with count 0 or size 0
\* and free(NULL) return (null) and leave heap bounds, every heap word and
\* all list heads unchanged.
C15_SpuriousNoOp ==
    [][(Ready /\ ~fault' /\ steps' # steps /\ Spurious(last'))
         => (last'.ret = NULL /\ StateKept /\ live' = live)]_vars

\* calloc(2, 0) has returned on a heap with a live allocation
C15_ZeroSized ==
    /\ Ready
    /\ last.op = "calloc"
    /\ last.n = 2
    /\ last.size = U64(0)
    /\ last.ret = NULL
    /\ live # {}

\* the step leaves the allocator in state s
LeavesIn(s) ==
    /\ mem' = s.mem
    /\ seg_list' = s.seg
    /\ heap_start' = s.heap_start

\* C16: realloc(NULL, n) returns what malloc(n) returns and leaves the state
\* malloc(n) leaves, from the same state; realloc(p, 0) for a live p leaves
\* the state free(p) leaves and returns null.
C16_ReallocDegenerate ==
    [][(Ready /\ ~fault' /\ last'.op = "realloc" /\ steps' # steps)
         => /\ last'.ptr = NULL =>
                 /\ last'.ret = malloc(Cur, last'.size).bp
                 /\ LeavesIn(malloc(Cur, last'.size).s)
            /\ (last'.ptr # NULL /\ last'.size = U64(0)) =>
                 /\ last'.ret = NULL
                 /\ LeavesIn(free(Cur, last'.ptr))
                 /\ live' = live \ {last'.ptr}
       ]_vars

\* realloc(NULL, size) has returned a block
C16_FromNull ==
    /\ Ready
    /\ last.op = "realloc"
    /\ last.ptr = NULL
    /\ last.size = U64(wsize * (2 * MaxReqWords - 1))
    /\ last.ret # NULL
    /\ last.ret \in live

\* the low k bytes of the word w, as far as Mix tells them apart
LowBytes(w, k) == IF k >= 4 THEN w ELSE w % Pow256(k)

\* min(size, c) for a capacity c
Shorter(size, c) == IF Lt64(size, U64(c)) THEN ToInt(size) ELSE c

\* the first n bytes at q after the step are the first n bytes at p before
\* it, as far as both lie in the heap
BytesMoved(q, p, n) ==
    \A i \in 0..((n + wsize - 1) \div wsize - 1) :
      (Valid(Cur, p + wsize * i) /\ Idx(q + wsize * i) \in 1..Len(mem'))
        => LowBytes(mem'[Idx(q + wsize * i)], n - wsize * i)
             = LowBytes(mem[Idx(p + wsize * i)], n - wsize * i)

\* realloc(p, size) with p not null and size > 0 has returned a block
ReallocReturned ==
    /\ Ready
    /\ ~fault'
    /\ last'.op = "realloc"
    /\ steps' # steps
    /\ last'.ptr # NULL
    /\ last'.size # U64(0)
    /\ last'.ret # NULL
    /\ Valid(Cur, payload_to_header(last'.ptr))

\* what that realloc owes its caller
ReallocMoved ==
    /\ last'.ret # last'.ptr
    /\ last'.ret \in live'
    /\ last'.ptr \notin live'
    /\ ~extract_alloc(mem'[Idx(payload_to_header(last'.ptr))])
    /\ BytesMoved(last'.ret, last'.ptr,
                  Shorter(last'.size,
                          get_payload_size(Cur, payload_to_header(last'.ptr))))

\* C17: for a live p with payload capacity c and a size > 0, if
\* q = realloc(p, size) is not null, the first min(size, c) bytes of q are
\* the payload bytes p had before the call, q is live and differs from p,
\* and p's block is free.
C17_ReallocMoves == [][ReallocReturned => ReallocMoved]_vars

\* the first n bytes at p are zero
ZeroBytes(p, n) ==
    \A i \in 0..((n + wsize - 1) \div wsize - 1) :
      /\ Valid(Cur, p + wsize * i)
      /\ LowBytes(Rd(Cur, p + wsize * i), n - wsize * i) = 0

\* C18: whenever calloc(n, s) returns a block, the first n * s bytes of its
\* payload are zero, whatever the block held before.
C18_CallocZeroes ==
    (Ready /\ last.op = "calloc" /\ last.ret # NULL)
      => ZeroBytes(last.ret, ToInt(Mul64(last.size, last.n)))

\* the first call after initialize was calloc(3, 8): it got the head of the
\* fresh 64-byte block, whose third payload word the heap provider had
\* filled with FreshWord and no call had written since; that word is zero
\* now
C18_FreshZeroed ==
    /\ Ready
    /\ steps = 1
    /\ last.op = "calloc"
    /\ last.ret = header_to_payload(heap_start)
    /\ ToInt(Mul64(last.size, last.n)) = 3 * wsize
    /\ Rd(Cur, last.ret + 2 * wsize) = 0
    /\ FreshWord # 0

\* the block malloc chooses for asize, and the state it is chosen in: the
\* fit, or else the block the extension gives
Chosen(asize) ==
    IF find_fit(Cur, asize).block # NULL
    THEN [s |-> Cur, block |-> find_fit(Cur, asize).block]
    ELSE extend_heap(Cur, max(asize, chunksize))

\* after the step the word at b is the header of a block of size size with
\* allocated bit alloc
HeaderAfter(b, size, alloc) ==
    /\ b >= HeapBase
    /\ (b - HeapBase) % wsize = 0
    /\ Idx(b) \in 1..Len(mem')
    /\ extract_size(mem'[Idx(b)]) = size
    /\ extract_alloc(mem'[Idx(b)]) = alloc

\* malloc(size) has returned a block for a size whose rounding does not wrap
MallocServed ==
    /\ Ready
    /\ ~fault'
    /\ last'.op = "malloc"
    /\ steps' # steps
    /\ last'.ret # NULL
    /\ ~Wraps(last'.size)

\* the block returned for asize has exactly that size, and what the chosen
\* block had beyond it is a free block
ExactlySized(asize, e) ==
    /\ e.block = payload_to_header(last'.ret)
    /\ HeaderAfter(e.block, asize, TRUE)
    /\ get_size(e.s, e.block) > asize =>
         /\ get_size(e.s, e.block) - asize >= min_block_size
         /\ HeaderAfter(e.block + asize, get_size(e.s, e.block) - asize, FALSE)

\* C19: for every size > 0 whose rounding does not wrap, the block malloc
\* returns has size exactly max(16, round_up(size + 8, 16)), whatever the
\* size of the block chosen: a larger chosen block is split and the rest is
\* a free block of at least 16 bytes.
C19_ExactSize ==
    [][MallocServed =>
         ExactlySized(ToInt(adjust(last'.size)),
                      Chosen(ToInt(adjust(last'.size))))]_vars

\* C20: after a successful mm_init the heap is 16 + 64 bytes and holds one
\* block: a free 64-byte block with prev-allocated set and prev-mini clear,
\* the only member of the list of the class of 64; the other 14 lists are
\* empty.
C20_InitialHeap ==
    (Ready /\ last.op = "mm_init" /\ last.ret = 1)
      => /\ wsize * Len(mem) = 2 * wsize + chunksize
         /\ Walk = <<heap_start>>
         /\ Rd(Cur, heap_start) = pack(chunksize, FALSE, TRUE, FALSE)
         /\ List(get_class(chunksize)) = <<heap_start>>
         /\ \A k \in Classes \ {get_class(chunksize)} : seg_list[k] = NULL

\* mm_init has just returned true
C20_Initialized == Ready /\ last.op = "mm_init" /\ last.ret = 1

\* the number of blocks in the 15 lists
FreeCount == SumOver([k \in Classes |-> Len(List(k))], Classes)

\* the plan allocate(n), free of the result has run on the fresh heap, n > 0
\* and the allocation succeeded
RoundTripped ==
    /\ Ready
    /\ Len(trail) = 2
    /\ trail[1].op = "malloc"
    /\ trail[1].size # U64(0)
    /\ trail[1].ret # NULL
    /\ trail[2].op = "free"
    /\ trail[2].ptr = trail[1].ret

\* C21: on a freshly initialized heap, for n > 0 with a = allocate(n) not
\* null, free(a) leaves one free block that covers all bytes between
\* prologue and epilogue, and a free count of 1; the block has the initial
\* 64 bytes when the heap was not extended and at least n + 64 bytes when it
\* was.
C21_RoundTrip ==
    RoundTripped =>
      /\ Walk = <<heap_start>>
      /\ IsFree(heap_start)
      /\ get_size(Cur, heap_start) = wsize * Len(mem) - 2 * wsize
      /\ FreeCount = 1
      /\ List(get_class(get_size(Cur, heap_start))) = <<heap_start>>
      /\ IF wsize * Len(mem) = 2 * wsize + chunksize
         THEN get_size(Cur, heap_start) = chunksize
         ELSE /\ wsize * Len(mem) > 2 * wsize + chunksize
              /\ get_size(Cur, heap_start)
                   >= ToInt(trail[1].size) + chunksize

\* allocate(2000), which extended the heap, and the free of its result have
\* run
C21_Extended ==
    /\ RoundTripped
    /\ trail[1].size = U64(2000)
    /\ wsize * Len(mem) > 2 * wsize + chunksize

\* the calls made so far are exactly those of plan, and none crashed
Ran(plan) == Ready /\ Len(trail) = Len(plan) /\ Follows(trail, plan)

\* the first three blocks of the walk are those the three allocate(16)
\* returned, adjacent and of 32 bytes each
ThreeAdjacent ==
    /\ Len(Walk) >= 3
    /\ \A i \in 1..3 :
         /\ Walk[i] = heap_start + 32 * (i - 1)
         /\ get_size(Cur, Walk[i]) = 32
         /\ trail[i].ret = header_to_payload(Walk[i])

\* C22: on a freshly initialized heap, after allocate(16) three times and
\* free of the second result, the three blocks are adjacent 32-byte blocks,
\* the middle one is free and not merged with its allocated neighbours, the
\* mini list is empty and the list of the class of 32 has length 1.
C22_FreeMiddle ==
    Ran(FreeMiddle) =>
      /\ ThreeAdjacent
      /\ ~IsFree(Walk[1])
      /\ IsFree(Walk[2])
      /\ ~IsFree(Walk[3])
      /\ seg_list[0] = NULL
      /\ Len(List(get_class(32))) = 1

\* C22 as amended: the same, except that the list of the class of 32 has
\* length 2: the third allocate extends the heap by 64 bytes and leaves a
\* free 32-byte block behind the third block, which is in that list after
\* the freed middle block.
C22_FreeMiddleTwoListed ==
    Ran(FreeMiddle) =>
      /\ ThreeAdjacent
      /\ ~IsFree(Walk[1])
      /\ IsFree(Walk[2])
      /\ ~IsFree(Walk[3])
      /\ seg_list[0] = NULL
      /\ Len(Walk) = 4
      /\ IsFree(Walk[4])
      /\ get_size(Cur, Walk[4]) = 32
      /\ List(get_class(32)) = <<Walk[2], Walk[4]>>

\* the three allocate(16) and the free of the second result have run
C22_MiddleFreed ==
    /\ Ran(FreeMiddle)
    /\ last.op = "free"
    /\ IsFree(payload_to_header(last.ptr))

\* allocate(16) three times and free of the first result
FreeFirst == ThreeOfSixteen \o <<PlanFreeOf(1)>>

\* the block freed second has a free block before it and an allocated one
\* behind it: coalesce_block takes its third case
PrevFreeNextAllocated(b) ==
    /\ ~get_prev_alloc(Cur, b)
    /\ get_alloc(Cur, find_next(Cur, b))

\* C23: on a freshly initialized heap, after allocate(16) three times, the
\* free of the first result creates a 16-byte mini free block; the free of
\* the second then takes the prev-free/next-allocated case and yields one
\* 32-byte free block; the mini list is empty and the list of the class of
\* 32 has length 1.
C23_FreeFirstSecond ==
    /\ Ran(FreeFirst) =>
         /\ IsFree(heap_start)
         /\ get_size(Cur, heap_start) = min_block_size
         /\ PrevFreeNextAllocated(payload_to_header(trail[2].ret))
    /\ Ran(FreeFirstSecond) =>
         /\ IsFree(heap_start)
         /\ get_size(Cur, heap_start) = 32
         /\ seg_list[0] = NULL
         /\ Len(List(get_class(32))) = 1

\* C23 as amended: allocate(16) gives 32-byte blocks, so the free of the
\* first result creates a 32-byte free block, and the free of the second,
\* by the prev-free/next-allocated case, one 64-byte free block at the start
\* of the heap, the only member of the list of the class of 64.  The mini
\* list is empty; the list of the class of 32 has length 1: it holds the
\* free 32-byte block the heap extension left behind the third block.
C23_FreeFirstSecondMerged ==
    /\ Ran(FreeFirst) =>
         /\ ThreeAdjacent
         /\ IsFree(heap_start)
         /\ get_size(Cur, heap_start) = 32
         /\ seg_list[0] = NULL
         /\ PrevFreeNextAllocated(payload_to_header(trail[2].ret))
    /\ Ran(FreeFirstSecond) =>
         /\ Len(Walk) = 3
         /\ IsFree(Walk[1])
         /\ get_size(Cur, Walk[1]) = 64
         /\ ~IsFree(Walk[2])
         /\ trail[3].ret = header_to_payload(Walk[2])
         /\ IsFree(Walk[3])
         /\ seg_list[0] = NULL
         /\ List(get_class(64)) = <<Walk[1]>>
         /\ List(get_class(32)) = <<Walk[3]>>

\* the three allocate(16), the free of the first and the free of the second
\* result have run
C23_BothFreed ==
    /\ Ran(FreeFirstSecond)
    /\ last.op = "free"
    /\ last.ptr = trail[2].ret
    /\ IsFree(heap_start)

\* the adjusted sizes find_fit is asked for
AskedSizes == {dsize * i : i \in 1..7}

\* the positions in list k of the blocks of at least asize bytes
FitsIn(k, asize) ==
    {i \in 1..Len(List(k)) : get_size(Cur, List(k)[i]) >= asize}

\* the classes from the class of asize on whose list holds a fit
FitClasses(asize) ==
    {k \in Classes : k >= get_class(asize) /\ FitsIn(k, asize) # {}}

LowestFitClass(asize) ==
    CHOOSE k \in FitClasses(asize) : \A j \in FitClasses(asize) : k <= j

\* the first max_search fits of list k, fewer if the list has fewer
Examined(k, asize) ==
    {i \in FitsIn(k, asize) :
        Cardinality({j \in FitsIn(k, asize) : j < i}) < max_search}

\* the smallest of them, the earliest of several of that size
Best(k, asize) ==
    CHOOSE i \in Examined(k, asize) :
      \A j \in Examined(k, asize) :
        \/ get_size(Cur, List(k)[i]) < get_size(Cur, List(k)[j])
        \/ /\ get_size(Cur, List(k)[i]) = get_size(Cur, List(k)[j])
           /\ i <= j

\* C24: find_fit(asize) returns the smallest block among the first
\* min(6, number of fits) blocks of size >= asize in list order in the lowest
\* class k >= class_of(asize) whose list holds a fit, the earliest one on
\* ties; blocks of other classes are not considered.
C24_BestOfFirstSix ==
    Ready =>
      \A asize \in AskedSizes :
        FitClasses(asize) # {} =>
          find_fit(Cur, asize)
            = [block |-> List(LowestFitClass(asize))
                           [Best(LowestFitClass(asize), asize)],
               wild |-> FALSE]

\* seven free blocks of one class had been arranged, six of 96 bytes before
\* one of 80 in the list; allocate(72) has taken the first of the six, and
\* the 80-byte block is still free
C24_SeventhSkipped ==
    /\ \E plan \in SevenOfAClass : Ran(plan)
    /\ last.op = "malloc"
    /\ last.ret = trail[11].ret
    /\ trail[15].ptr = trail[13].ret
    /\ IsFree(payload_to_header(trail[13].ret))
    /\ get_size(Cur, payload_to_header(trail[13].ret)) = 80

\* some free block of the walk has at least asize bytes
FreeBlockOf(asize) ==
    \E i \in FreeInWalk : get_size(Cur, Walk[i]) >= asize

\* b is in one of the lists
Listed(b) == \E k \in Classes : Occurs(k, b) > 0

\* C25: for every asize >= 16 that is a multiple of 16, in every reachable
\* state, find_fit(asize) returns null exactly if no free block of the heap
\* has size >= asize, and a block it returns is a free member of a list of
\* size >= asize.
C25_FitIffFree ==
    Ready =>
      \A asize \in AskedSizes :
        /\ ~find_fit(Cur, asize).wild
        /\ find_fit(Cur, asize).block = NULL <=> ~FreeBlockOf(asize)
        /\ find_fit(Cur, asize).block # NULL =>
             /\ Listed(find_fit(Cur, asize).block)
             /\ IsFree(find_fit(Cur, asize).block)
             /\ get_size(Cur, find_fit(Cur, asize).block) >= asize

\* the position of block b in the walk, 0 if the walk does not visit it
PosInWalk(b) ==
    IF \E i \in 1..Len(Walk) : Walk[i] = b
    THEN CHOOSE i \in 1..Len(Walk) : Walk[i] = b
    ELSE 0

\* the free immediate neighbours of block b in the walk
FreeLeft(b) ==
    {Walk[i] : i \in {j \in 1..Len(Walk) :
                        j + 1 = PosInWalk(b) /\ IsFree(Walk[j])}}
FreeRight(b) ==
    {Walk[i] : i \in {j \in 1..Len(Walk) :
                        j - 1 = PosInWalk(b) /\ PosInWalk(b) # 0
                        /\ IsFree(Walk[j])}}

\* the step is a free of a live block that returned
FreeReturned ==
    /\ Ready
    /\ ~fault'
    /\ steps' # steps
    /\ last'.op = "free"
    /\ last'.ptr \in live

\* the block that free(p) leaves: where it starts and how large it is
Survivor(b) == IF FreeLeft(b) = {} THEN b ELSE CHOOSE l \in FreeLeft(b) : TRUE
MergedSize(b) ==
    get_size(Cur, b)
      + SumOver([n \in FreeLeft(b) \cup FreeRight(b) |-> get_size(Cur, n)],
                FreeLeft(b) \cup FreeRight(b))

\* after the step the free block at sv has size bytes and heads the list of
\* its class, the blocks of gone are in no list and not in the walk, and walk
\* and lists have count blocks fewer
MergedInto(sv, size, gone, walked, listed, freed) ==
    /\ PosInWalk(sv)' # 0
    /\ IsFree(sv)'
    /\ get_size(Cur, sv)' = size
    /\ seg_list'[get_class(size)] = sv
    /\ SumOver([k \in Classes |-> Occurs(k, sv)], Classes)' = 1
    /\ \A n \in gone :
          /\ PosInWalk(n)' = 0
          /\ \A k \in Classes : Occurs(k, n)' = 0
    /\ Len(Walk)' = walked
    /\ FreeCount' = listed
    /\ Cardinality(FreeInWalk)' = freed

\* the step merged block b with exactly its free immediate neighbours
MergedWithFreeNeighbours(b) ==
    /\ PosInWalk(b) # 0
    /\ \A sv \in {Survivor(b)}, size \in {MergedSize(b)},
          gone \in {FreeRight(b) \cup ({b} \ {Survivor(b)})},
          merged \in {Cardinality(FreeLeft(b) \cup FreeRight(b))},
          walked \in {Len(Walk)}, listed \in {FreeCount},
          freed \in {Cardinality(FreeInWalk)} :
            MergedInto(sv, size, gone, walked - merged, listed + 1 - merged,
                       freed + 1 - merged)

\* C26: free(p) on block b merges b with exactly its free immediate
\* neighbours: the surviving free block starts at the left neighbour when
\* that was free and at b otherwise, its size is b's plus the sizes of the
\* free neighbours, it is the head of the list of its new class, the merged
\* neighbours are in no list, and the number of free blocks changes by 1
\* minus the number of free neighbours.
C26_FreeMerges ==
    [][\A p \in live :
          (FreeReturned /\ last'.ptr = p) =>
             MergedWithFreeNeighbours(payload_to_header(p))]_vars

\* the adjusted size malloc computes for the call c
AskedOf(c) == adjust(CallSize(c))

\* by how many bytes the step has moved the top of the heap
Grown == wsize * (Len(mem') - Len(mem))

\* some member of a list has at least asize bytes
ListedBlockOf(asize) ==
    \E k \in Classes : \E i \in 1..Len(List(k)) :
       Valid(Cur, List(k)[i]) /\ get_size(Cur, List(k)[i]) >= asize

\* the step is a call that has to get asize bytes while no free block of
\* the walk and no member of a list is that large
NeedsMore(asize) ==
    /\ last'.op \in Allocating
    /\ steps' # steps
    /\ CallSize(last') # U64(0)
    /\ Small64(asize)
    /\ ~FreeBlockOf(ToInt(asize))
    /\ ~ListedBlockOf(ToInt(asize))

\* C27: after initialize the heap size changes only inside allocate, and
\* only when no free block of size >= asize exists: it then grows by exactly
\* max(asize, 64) bytes, also when the last block of the heap is free; when
\* a fit exists the bounds are unchanged, free never changes them, and the
\* heap never shrinks.
C27_GrowsOnlyWithoutFit ==
    [][(Ready /\ ~fault') =>
         /\ Grown >= 0
         /\ Grown # 0 =>
              /\ NeedsMore(AskedOf(last'))
              /\ Grown = max(ToInt(AskedOf(last')), chunksize)
         /\ last'.op = "free" => Grown = 0
       ]_vars

\* the second call got its block from an extension of the initial heap that
\* was merged with the free last block: the block starts below the place of
\* the first epilogue
C27_GrewBehindFree ==
    /\ Ready
    /\ steps = 2
    /\ last.op \in Allocating
    /\ last.ret # NULL
    /\ wsize * Len(mem) = 2 * wsize + 2 * chunksize
    /\ payload_to_header(last.ret) < mem_heap_lo + wsize + chunksize

\* the words of the two sentinels
PrologueWord == Rd(Cur, mem_heap_lo)
EpilogueWord == Rd(Cur, mem_heap_hi(Cur) - 7)

\* C28 as stated: the epilogue word has the same encoding as the prologue in
\* every state at API entry and exit: size 0, allocated, prev-allocated
\* true, prev-mini false.
C28_EpilogueAsPrologue ==
    Ready =>
      /\ PrologueWord = pack(0, TRUE, TRUE, FALSE)
      /\ EpilogueWord = PrologueWord

\* C28, amended: initialize leaves the epilogue word as size 0, allocated,
\* prev-allocated false, prev-mini false, since the last block of the heap is
\* free; it is not the prologue's encoding, which is size 0, allocated,
\* prev-allocated true, prev-mini false.
C28_EpilogueAfterInit ==
    (Ready /\ last.op = "mm_init") =>
      /\ PrologueWord = pack(0, TRUE, TRUE, FALSE)
      /\ EpilogueWord = pack(0, TRUE, FALSE, FALSE)

\* initialize has returned and the epilogue's prev-allocated bit is clear
C28_FreshEpilogue ==
    /\ Ready
    /\ last.op = "mm_init"
    /\ extract_size(EpilogueWord) = 0
    /\ ~extract_prev_alloc(EpilogueWord)

\* the epilogue word has size 0 and is allocated, and its prev bits are
\* those of the last block of the walk
EpilogueAfterLast ==
    /\ extract_size(EpilogueWord) = 0
    /\ extract_alloc(EpilogueWord)
    /\ Len(Walk) > 0
    /\ WalkEnd = mem_heap_hi(Cur) - 7
    /\ extract_prev_alloc(EpilogueWord) = get_alloc(Cur, Walk[Len(Walk)])
    /\ extract_prev_mini(EpilogueWord)
         = (get_size(Cur, Walk[Len(Walk)]) = min_block_size)

\* the blocks the coalescer can be called on next: the block of a live
\* payload, which free hands to it, and the place of the epilogue, where
\* extend_heap puts the block it hands to it
CoalescerInputs == {payload_to_header(p) : p \in live} \cup {mem_heap_hi(Cur) - 7}

\* the place of block b in the walk, the epilogue counted as the place after
\* the last block; 0 if b is neither
PlaceInWalk(b) ==
    IF PosInWalk(b) # 0 THEN PosInWalk(b)
    ELSE IF b = WalkEnd /\ b = mem_heap_hi(Cur) - 7 THEN Len(Walk) + 1
    ELSE 0

\* find_prev(b) is the block before b in the walk, found at b - 16 exactly
\* if that block has 16 bytes and else by a footer at b - 8 that is the
\* header of a free block of more than 16 bytes
StepsBackTo(b, left) ==
    /\ find_prev(Cur, b) = left
    /\ get_prev_mini(Cur, b) <=> get_size(Cur, left) = min_block_size
    /\ IsFree(left)
    /\ ~get_prev_mini(Cur, b) =>
         /\ Rd(Cur, find_prev_footer(b)) = Rd(Cur, left)
         /\ get_size(Cur, left) > min_block_size

\* C29: whenever the coalescer steps back from a block (its prev-allocated
\* bit is false), find_prev returns the block's left neighbour in the
\* implicit walk: block - 16 exactly when that neighbour has 16 bytes, and
\* otherwise by a valid footer of a free block of more than 16 bytes at
\* block - 8; the first block of the heap always has prev-allocated true.
C29_StepsBack ==
    Ready =>
      /\ get_prev_alloc(Cur, heap_start)
      /\ \A b \in CoalescerInputs :
           ~get_prev_alloc(Cur, b) =>
              /\ PlaceInWalk(b) > 1
              /\ StepsBackTo(b, Walk[PlaceInWalk(b) - 1])

\* the block layout of state s: for every block of the walk its address,
\* size, allocated bit and prev flags, and the prev flags of the word the
\* walk stops at
LayoutOf(s) ==
    LET w == WalkFrom(s, s.heap_start, Fuel(s))
        stop == IF w = <<>> THEN s.heap_start ELSE find_next(s, w[Len(w)])
    IN  [blocks |-> [i \in 1..Len(w) |->
                       <<w[i], get_size(s, w[i]), get_alloc(s, w[i]),
                         get_prev_alloc(s, w[i]), get_prev_mini(s, w[i])>>],
         stop |-> <<stop, get_prev_alloc(s, stop), get_prev_mini(s, stop)>>,
         top |-> Len(s.mem)]

\* m, what allocate returned in the current state, is a block got without
\* growing the heap
ServedInPlace(m) ==
    /\ ~m.s.fault
    /\ m.bp # NULL
    /\ Len(m.s.mem) = Len(mem)

\* free(m.bp) right after the allocate that returned m gives the layout of
\* the current state back
RoundTripRestores(m) ==
    /\ ~free(m.s, m.bp).fault
    /\ LayoutOf(free(m.s, m.bp)) = LayoutOf(Cur)

\* C30: from any reachable state, if p = allocate(n) returns non-null
\* without growing the heap, free(p) right after it restores the block
\* layout of the state before the allocate: the same sequence of blocks with
\* the same sizes, allocated bits and prev flags.
C30_AllocateFreeRestores ==
    Ready =>
      \A size \in ReqSizes \cup WrapSizes :
         ServedInPlace(malloc(Cur, size)) =>
            RoundTripRestores(malloc(Cur, size))

\* the members of the 15 lists of state s, as sets
MembersOf(s) ==
    [k \in Classes |->
       {ListFrom(s, s.seg[k], Fuel(s))[i] :
          i \in 1..Len(ListFrom(s, s.seg[k], Fuel(s)))}]

\* the state after free(a) and then free(b), from the current state, as a
\* set of one state
FreedBoth(a, b) == {free(s, b) : s \in {free(Cur, a)}}

\* C31: for any reachable state and any two distinct live pointers p and q,
\* free(p); free(q) and free(q); free(p) yield the same sequence of blocks
\* with the same sizes, allocated bits and prev flags, and the same set of
\* members in each free list.
C31_FreeCommutes ==
    Ready =>
      \A p, q \in live :
         p # q =>
           \A pq \in FreedBoth(p, q), qp \in FreedBoth(q, p) :
              /\ ~pq.fault
              /\ ~qp.fault
              /\ LayoutOf(pq) = LayoutOf(qp)
              /\ MembersOf(pq) = MembersOf(qp)

\* list k leads from its head along next fields through blocks inside the
\* heap to NULL and visits no block twice
EndsAtNull(k) ==
    /\ \A i \in 1..Len(List(k)) :
          /\ Valid(Cur, List(k)[i])
          /\ Valid(Cur, NextField(List(k)[i]))
    /\ \A i, j \in 1..Len(List(k)) : List(k)[i] = List(k)[j] => i = j
    /\ List(k) # <<>> => get_next(Cur, List(k)[Len(List(k))]) = NULL

\* C32: every public operation terminates: in every reachable state each of
\* the 15 free lists is acyclic and null-terminated along next pointers, so
\* the scans of find_fit and of the mini-list removal end, and the implicit
\* walk reaches the epilogue after finitely many steps.
C32_ScansEnd ==
    Ready =>
      /\ \A k \in Classes : EndsAtNull(k)
      /\ WalkEnd = mem_heap_hi(Cur) - 7

\* mm_checkheap has just returned; last.ret is 1 for true, 0 for false
HeapChecked == Ready /\ last.op = "mm_checkheap"

\* what the two passes of mm_checkheap find in the current state
WalkPass == check_walk(Cur, heap_start, NULL, 0, 0, Fuel(Cur))
ListPass ==
    check_lists(Cur, 0, [ok |-> TRUE, num_blocks |-> 0, total_size |-> 0])

\* the current state passes every check on a block and on a list, and the
\* two passes count different numbers of free blocks
CountsDiffer ==
    /\ WalkPass.ok
    /\ ListPass.ok
    /\ WalkPass.num_free_blocks # ListPass.num_blocks

\* C33: for every heap state that passes all per-block and per-list checks,
\* mm_checkheap returns false whenever the number of free blocks counted in
\* the implicit walk differs from the number of blocks counted over the 15
\* lists.
C33_CountsCompared ==
    (HeapChecked /\ CountsDiffer) => last.ret = 0

\* some block of the walk, the first one apart, has a prev-allocated bit
\* that is not the allocated bit of the block before it, or a prev-mini bit
\* that does not tell whether that block has 16 bytes
PrevBitsOff ==
    \E i \in 2..Len(Walk) :
       \/ get_prev_alloc(Cur, Walk[i]) # get_alloc(Cur, Walk[i - 1])
       \/ get_prev_mini(Cur, Walk[i])
            # (get_size(Cur, Walk[i - 1]) = min_block_size)

\* C34: mm_checkheap returns false for every heap state in which some block
\* of the walk has a prev-allocated bit different from its left neighbour's
\* allocated bit or a prev-mini bit different from (left neighbour's size
\* = 16).
C34_PrevBitsChecked ==
    (HeapChecked /\ PrevBitsOff) => last.ret = 0

\* the lower bounds of the 15 classes
LowerBounds ==
    <<16, 32, 48, 64, 80, 112, 160, 208, 272, 480, 800, 1728, 3232, 5536,
      18736>>

\* the index, from 0, of the largest lower bound that is at most sz
TableClass(sz) ==
    CHOOSE k \in 0..(Len(LowerBounds) - 1) :
       /\ LowerBounds[k + 1] <= sz
       /\ \A j \in 0..(Len(LowerBounds) - 1) :
             LowerBounds[j + 1] <= sz => j <= k

\* get_class has just returned last.ret for the size last.size
ClassAsked == last.op = "get_class"

\* C35: for every size that is a multiple of 16 and at least 16, get_class
\* returns the index in 0..14 of the largest lower bound among 16, 32, 48,
\* 64, 80, 112, 160, 208, 272, 480, 800, 1728, 3232, 5536, 18736 that is at
\* most the size; no smaller size has a larger class; class 0 holds exactly
\* the 16-byte blocks.
C35_ClassOfTable ==
    ClassAsked =>
      /\ last.ret \in 0..14
      /\ last.ret = TableClass(ToInt(last.size))
      /\ \A sz \in BlockSizes :
            sz <= ToInt(last.size) => get_class(sz) <= last.ret
      /\ ((last.ret = 0) <=> (ToInt(last.size) = min_block_size))

\* get_class was asked about the last lower bound and answered 14
C35_LastClass ==
    /\ ClassAsked
    /\ ToInt(last.size) = LowerBounds[Len(LowerBounds)]
    /\ last.ret = NUM_CLASSES - 1

(***************************************************************************)
(* The same properties on the histories in which no request has been so    *)
(* large that malloc's round_up wrapped.  These hold; the properties above *)
(* fail only on histories with such a request.                             *)
(***************************************************************************)
\* the state properties of C1 and C3 to C10, while no request has wrapped
HoldWithoutOverflow ==
    ~overflowed =>
      /\ C1_PayloadsApart
      /\ C3_Aligned
      /\ C4_Capacity
      /\ C5_DebugChecksHold
      /\ C6_NoAdjacentFree
      /\ C7_PrevBits
      /\ C8_WalkTiles
      /\ C9_FreeListedOnce
      /\ C10_ListsHoldFree

\* the frame property of C2, for the steps of histories without a wrapped
\* request
UntouchedWithoutOverflow ==
    [][(Ready /\ ~fault' /\ ~overflowed') =>
         \A p \in (live \cap live') \ {last'.ptr} :
            Valid(Cur, payload_to_header(p)) => Untouched(p)]_vars

\* no call crashes while no request has wrapped
NoFaultWithoutOverflow == ~overflowed => ~fault

\* the exact size of C19, for the mallocs of histories without a wrapped
\* request
ExactWithoutOverflow ==
    [][(MallocServed /\ ~overflowed) =>
         ExactlySized(ToInt(adjust(last'.size)),
                      Chosen(ToInt(adjust(last'.size))))]_vars

\* the state properties of C11 and C12, while no request has wrapped
LinksWithoutOverflow ==
    ~overflowed => (C11_FooterIsHeader /\ C12_DoublyLinked)

\* the choice of find_fit of C24 and C25, while no request has wrapped
FitsWithoutOverflow ==
    ~overflowed => (C24_BestOfFirstSix /\ C25_FitIffFree)

\* the copy and release of C17, for the reallocs of histories without a
\* wrapped request
MovesWithoutOverflow ==
    [][(ReallocReturned /\ ~overflowed') => ReallocMoved]_vars

\* the merge of C26, for the frees of histories without a wrapped request
MergesWithoutOverflow ==
    [][\A p \in live :
          (FreeReturned /\ last'.ptr = p /\ ~overflowed) =>
             MergedWithFreeNeighbours(payload_to_header(p))]_vars

\* the sentinels in every state, while no request has wrapped
SentinelsWithoutOverflow ==
    (Ready /\ ~overflowed) =>
      /\ PrologueWord = pack(0, TRUE, TRUE, FALSE)
      /\ EpilogueAfterLast

\* the step back of C29, while no request has wrapped
StepsBackWithoutOverflow == ~overflowed => C29_StepsBack

\* the round trip of C30, while no request has wrapped
RestoresWithoutOverflow == ~overflowed => C30_AllocateFreeRestores

\* the two orders of C31, while no request has wrapped
CommutesWithoutOverflow == ~overflowed => C31_FreeCommutes

\* the ends of lists and walk of C32, while no request has wrapped
EndsWithoutOverflow == ~overflowed => C32_ScansEnd

=============================================================================
